---- MODULE Spec2Model ----
(***************************************************************************)
(* Face recognition server: the HNSW vector index (HNSWService), its       *)
(* persistence, and the recognition pipeline built on it.                  *)
(*                                                                         *)
(* Descriptors are 128-D float vectors in the program.  Here a descriptor  *)
(* is a point 0..MaxCoord on a line and neighbouring points lie Unit       *)
(* hundredths apart, so that the squared L2 distance the library returns   *)
(* is (Unit*(a-b))^2, Math.sqrt of it is exact, and the threshold 0.42 is  *)
(* the integer 42.  BadDesc is an array whose length is not DESCRIPTOR_DIM *)
(* (addPoint rejects it); BadJson is a descriptor column that JSON.parse   *)
(* rejects.                                                                *)
(*                                                                         *)
(* Specifications: Spec follows the calls on HNSWService, SpecCrash adds  *)
(* a process that ends inside or right after saveIndex, SpecSys follows    *)
(* the controllers, the users table and the result cache, SpecConfig adds  *)
(* updateConfiguration, SpecBatch and SpecBatchFair follow BatchService,   *)
(* SpecCache follows CacheService over its two tiers, SpecEnroll follows   *)
(* concurrent register requests, SpecShutdown the batch engine up to a     *)
(* termination signal, SpecUpdate concurrent update requests, SpecPersist  *)
(* the periodic save with the successful adds counted, SpecDisk saves on a *)
(* data directory that stops accepting writes, SpecRebuild a background    *)
(* rebuild beside register requests.                                       *)
(***************************************************************************)
EXTENDS Integers, Sequences, FiniteSets, TLC

\* ------------------------------------------------------------------ bounds
NumUsers == 2
MaxCoord == 1
MaxLabel == 4
MaxElements == 3
SaveEvery == 2
MaxCrashes == 1
CacheMaxSize == 1
MaxCalls == 2
MaxBatchSize == 3
MaxConcurrency == 2
JobTtl == 1
MaxJobs == 1
MaxClock == 2
NumRequests == 2
NumCacheKeys == 2
NumCacheValues == 2
MaxAdds == 4
\* distances are counted in hundredths; neighbouring descriptors lie Unit apart
Unit == 100

\* ------------------------------------------------------------- value sets
BadDesc == -1
BadJson == -2

Users == 1..NumUsers
Vecs == 0..MaxCoord
Descs == Vecs \cup {BadDesc}
DbDescs == Vecs \cup {BadDesc, BadJson}
CONFIDENCE_THRESHOLD == 42
Inf == Unit * MaxCoord + 1
Thresholds == {0, CONFIDENCE_THRESHOLD, Unit, Inf}
Images == 0..(MaxCoord + 1)
Ks == 1..NumUsers
TieBreaks == {"asc", "desc"}
NoUser == 0

Min(a, b) == IF a < b THEN a ELSE b

CiOf(u) == u + 100

VARIABLES hnswService, fs, tieBreak, lastOp, removed, crashes, db, cache, stats, pending,
          faceConfig, batchService, clock, cacheService, requests, adds

vars == <<hnswService, fs, tieBreak, lastOp, removed, crashes, db, cache, stats, pending,
          faceConfig, batchService, clock, cacheService, requests, adds>>

\* the state outside the index, the table and the result cache; adds is a
\* history variable: the addUser calls that inserted a new user, counted
\* where the periodic save is followed (SpecPersist)
extVars == <<faceConfig, batchService, clock, cacheService, requests, adds>>

sysVars == <<db, cache, stats, pending>>

\* ------------------------------------------------- hnswlib-node (library)
\* squared L2 distance of the 'l2' space
Dist2(a, b) == (Unit * (a - b)) * (Unit * (a - b))

Sqrt(n) == CHOOSE r \in {Unit * i : i \in 0..MaxCoord} : r * r = n

\* index.markDelete(label): throws when the label is unknown or already
\* marked deleted
markDelete(pts, label) ==
    IF label \in DOMAIN pts /\ ~pts[label].del
    THEN [threw |-> FALSE, pts |-> [pts EXCEPT ![label].del = TRUE]]
    ELSE [threw |-> TRUE, pts |-> pts]

\* index.addPoint(vector, label): throws on a vector of the wrong length and
\* when the graph is full (marked-deleted points still occupy their slot);
\* a label that is already in the graph is overwritten and un-deleted
addPoint(pts, vec, label) ==
    IF vec \notin Vecs
    THEN [threw |-> TRUE, pts |-> pts]
    ELSE IF label \in DOMAIN pts
    THEN [threw |-> FALSE, pts |-> [pts EXCEPT ![label] = [vec |-> vec, del |-> FALSE]]]
    ELSE IF Cardinality(DOMAIN pts) >= MaxElements
    THEN [threw |-> TRUE, pts |-> pts]
    ELSE [threw |-> FALSE, pts |-> (label :> [vec |-> vec, del |-> FALSE]) @@ pts]

\* order in which the graph reports two candidates: nearer first, equal
\* distances in the library's (unspecified but fixed) order
Before(pts, q, tb, a, b) ==
    LET distA == Dist2(pts[a].vec, q)
        distB == Dist2(pts[b].vec, q)
    IN  distA < distB \/ (distA = distB /\ IF tb = "asc" THEN a < b ELSE a > b)

RECURSIVE nearest(_, _, _, _, _)
nearest(pts, cands, q, n, tb) ==
    IF n = 0 \/ cands = {}
    THEN <<>>
    ELSE LET best == CHOOSE a \in cands : \A b \in cands \ {a} : Before(pts, q, tb, a, b)
         IN  <<[label |-> best, distance |-> Dist2(pts[best].vec, q)]>>
             \o nearest(pts, cands \ {best}, q, n - 1, tb)

\* index.searchKnn(vector, numNeighbors): marked-deleted points are skipped
searchKnn(pts, q, n, tb) ==
    nearest(pts, {l \in DOMAIN pts : ~pts[l].del}, q, n, tb)

\* ------------------------------------------------------------ HNSWService
NewService ==
    [isInitialized |-> FALSE, hasIndex |-> FALSE, pts |-> <<>>,
     idMap |-> <<>>, reverseIdMap |-> <<>>, nextLabel |-> 0, totalVectors |-> 0]

NoData == [nextLabel |-> 0, idMap |-> <<>>, reverseIdMap |-> <<>>]

NoFile == [state |-> "none", pts |-> <<>>, savedWith |-> NoData, data |-> NoData]

\* writable: the data directory accepts writes
NewFs == [index |-> NoFile, meta |-> NoFile, writable |-> TRUE]

Without(f, k) == [x \in (DOMAIN f) \ {k} |-> f[x]]

ParseInt(x) == x

\* JSON.stringify(Array.from(map.entries())) and back through JSON.parse
Entries(m) == {<<k, m[k]>> : k \in DOMAIN m}

\* new Map(meta.idMap.map(([k, v]) => [parseInt(k), v]))
IdMapFromEntries(es) ==
    [k \in {ParseInt(e[1]) : e \in es} |->
        (CHOOSE e \in es : ParseInt(e[1]) = k)[2]]

\* new Map(meta.reverseIdMap.map(([k, v]) => [parseInt(k), parseInt(v)]))
ReverseIdMapFromEntries(es) ==
    [k \in {ParseInt(e[1]) : e \in es} |->
        ParseInt((CHOOSE e \in es : ParseInt(e[1]) = k)[2])]

size(s) == s.totalVectors

hasUser(s, userId) == userId \in DOMAIN s.reverseIdMap

createIndex(s) ==
    [s EXCEPT !.hasIndex = TRUE, !.pts = <<>>, !.idMap = <<>>,
              !.reverseIdMap = <<>>, !.nextLabel = 0, !.totalVectors = 0]

MetaOf(s) ==
    [nextLabel |-> s.nextLabel, idMap |-> Entries(s.idMap),
     reverseIdMap |-> Entries(s.reverseIdMap)]

\* saveIndex: index.writeIndex(path) starts writing the graph file in place
\* and its promise is not awaited; the metadata file is written at once.
\* The graph file is "writing" until the library finishes (WriteIndexDone).
\* savedWith is the metadata of the save that wrote the graph file, kept
\* beside the file so that properties can speak about pairing.
\* When the directory refuses writes the library's stream writes nothing,
\* writeFileSync throws, and the catch of saveIndex logs the error.
saveIndex(s, f) ==
    IF ~s.hasIndex
    THEN f
    ELSE IF ~f.writable
    THEN f
    ELSE [f EXCEPT
            !.index = [state |-> "writing", pts |-> s.pts, savedWith |-> MetaOf(s), data |-> NoData],
            !.meta = [state |-> "ok", pts |-> <<>>, savedWith |-> NoData, data |-> MetaOf(s)]]

loadIndex(s, f) ==
    IF f.index.state = "ok" /\ f.meta.state = "ok"
    THEN LET meta == f.meta.data
             idm == IdMapFromEntries(meta.idMap)
         IN  [s EXCEPT !.hasIndex = TRUE,
                       !.pts = f.index.pts,
                       !.idMap = idm,
                       !.reverseIdMap = ReverseIdMapFromEntries(meta.reverseIdMap),
                       !.nextLabel = meta.nextLabel,
                       !.totalVectors = Cardinality(DOMAIN idm)]
    ELSE createIndex(s)

initialize(s, f) ==
    LET t == IF f.index.state # "none" /\ f.meta.state # "none"
             THEN loadIndex(s, f)
             ELSE createIndex(s)
    IN  [t EXCEPT !.isInitialized = TRUE]

Ret(s, f, threw) == [s |-> s, f |-> f, threw |-> threw]

\* updateExisting with the old entry of idMap left in place
updateExisting_KeepOldMeta(s, f, userId, descriptor) ==
    LET label == s.reverseIdMap[userId]
        md == markDelete(s.pts, label)
        newLabel == s.nextLabel
        s1 == [s EXCEPT !.pts = md.pts, !.nextLabel = @ + 1]
        ap == addPoint(s1.pts, descriptor, newLabel)
    IN  IF md.threw THEN Ret(s, f, TRUE)
        ELSE IF ap.threw THEN Ret(s1, f, TRUE)
        ELSE Ret([s1 EXCEPT !.pts = ap.pts,
                            !.idMap = (newLabel :> [userId |-> userId, ci |-> CiOf(userId)]) @@ @,
                            !.reverseIdMap = [@ EXCEPT ![userId] = newLabel]],
                 f, FALSE)

\* updateExisting that takes the label without advancing nextLabel
updateExisting_NoIncrement(s, f, userId, descriptor) ==
    LET label == s.reverseIdMap[userId]
        md == markDelete(s.pts, label)
        newLabel == s.nextLabel
        s1 == [s EXCEPT !.pts = md.pts]
        ap == addPoint(s1.pts, descriptor, newLabel)
    IN  IF md.threw THEN Ret(s, f, TRUE)
        ELSE IF ap.threw THEN Ret(s1, f, TRUE)
        ELSE Ret([s1 EXCEPT !.pts = ap.pts,
                            !.idMap = (newLabel :> [userId |-> userId, ci |-> CiOf(userId)])
                                        @@ Without(s1.idMap, label),
                            !.reverseIdMap = [@ EXCEPT ![userId] = newLabel]],
                 f, FALSE)

\* updateExisting that inserts the new point and leaves the old one alone
updateExisting_OldStaysLive(s, f, userId, descriptor) ==
    LET newLabel == s.nextLabel
        s1 == [s EXCEPT !.nextLabel = @ + 1]
        ap == addPoint(s1.pts, descriptor, newLabel)
    IN  IF ap.threw THEN Ret(s1, f, TRUE)
        ELSE Ret([s1 EXCEPT !.pts = ap.pts,
                            !.idMap = (newLabel :> [userId |-> userId, ci |-> CiOf(userId)]) @@ @,
                            !.reverseIdMap = [@ EXCEPT ![userId] = newLabel]],
                 f, FALSE)

\* the body of updateUser once the user is known to be in reverseIdMap
updateExisting(s, f, userId, descriptor) ==
    LET label == s.reverseIdMap[userId]
        md == markDelete(s.pts, label)
        newLabel == s.nextLabel
        s1 == [s EXCEPT !.pts = md.pts, !.nextLabel = @ + 1]
        ap == addPoint(s1.pts, descriptor, newLabel)
    IN  IF md.threw THEN Ret(s, f, TRUE)
        ELSE IF ap.threw THEN Ret(s1, f, TRUE)
        ELSE Ret([s1 EXCEPT !.pts = ap.pts,
                            !.idMap = (newLabel :> [userId |-> userId, ci |-> CiOf(userId)])
                                        @@ Without(s1.idMap, label),
                            !.reverseIdMap = [@ EXCEPT ![userId] = newLabel]],
                 f, FALSE)

addUser(s, f, userId, descriptor) ==
    IF ~s.isInitialized THEN Ret(s, f, TRUE)
    ELSE IF hasUser(s, userId) THEN updateExisting(s, f, userId, descriptor)
    ELSE LET label == s.nextLabel
             s1 == [s EXCEPT !.nextLabel = @ + 1]
             ap == addPoint(s1.pts, descriptor, label)
             s2 == [s1 EXCEPT !.pts = ap.pts,
                              !.idMap = (label :> [userId |-> userId, ci |-> CiOf(userId)]) @@ @,
                              !.reverseIdMap = (userId :> label) @@ @,
                              !.totalVectors = @ + 1]
         IN  IF ap.threw THEN Ret(s1, f, TRUE)
             ELSE IF s2.totalVectors % SaveEvery = 0
             THEN Ret(s2, saveIndex(s2, f), FALSE)
             ELSE Ret(s2, f, FALSE)

updateUser(s, f, userId, descriptor) ==
    IF ~hasUser(s, userId)
    THEN addUser(s, f, userId, descriptor)
    ELSE updateExisting(s, f, userId, descriptor)

\* removeUser that leaves totalVectors as it is
removeUser_NoDecrement(s, userId) ==
    IF ~hasUser(s, userId) THEN [s |-> s, threw |-> FALSE]
    ELSE LET label == s.reverseIdMap[userId]
             md == markDelete(s.pts, label)
         IN  IF md.threw THEN [s |-> s, threw |-> TRUE]
             ELSE [s |-> [s EXCEPT !.pts = md.pts,
                                   !.idMap = Without(@, label),
                                   !.reverseIdMap = Without(@, userId)],
                   threw |-> FALSE]

removeUser(s, userId) ==
    IF ~hasUser(s, userId) THEN [s |-> s, threw |-> FALSE]
    ELSE LET label == s.reverseIdMap[userId]
             md == markDelete(s.pts, label)
         IN  IF md.threw THEN [s |-> s, threw |-> TRUE]
             ELSE [s |-> [s EXCEPT !.pts = md.pts,
                                   !.idMap = Without(@, label),
                                   !.reverseIdMap = Without(@, userId),
                                   !.totalVectors = IF @ - 1 > 0 THEN @ - 1 ELSE 0],
                   threw |-> FALSE]

\* results.sort((a, b) => a.distance - b.distance): a stable sort
RECURSIVE InsertSorted(_, _)
InsertSorted(sorted, r) ==
    IF sorted = <<>> THEN <<r>>
    ELSE IF sorted[Len(sorted)].distance <= r.distance
    THEN Append(sorted, r)
    ELSE Append(InsertSorted(SubSeq(sorted, 1, Len(sorted) - 1), r), sorted[Len(sorted)])

RECURSIVE SortByDistance(_)
SortByDistance(rs) ==
    IF rs = <<>> THEN <<>>
    ELSE InsertSorted(SortByDistance(SubSeq(rs, 1, Len(rs) - 1)), rs[Len(rs)])

search(s, tb, queryDescriptor, k, threshold) ==
    IF ~s.isInitialized \/ ~s.hasIndex \/ s.totalVectors = 0
    THEN <<>>
    ELSE LET numNeighbors == Min(k, s.totalVectors)
             nb == searchKnn(s.pts, queryDescriptor, numNeighbors, tb)
             Keep(n) == ~(n.distance > threshold * threshold) /\ n.label \in DOMAIN s.idMap
             kept == SelectSeq(nb, Keep)
             results == [i \in 1..Len(kept) |->
                            [userId |-> s.idMap[kept[i].label].userId,
                             ci |-> s.idMap[kept[i].label].ci,
                             distance |-> Sqrt(kept[i].distance),
                             similarity |-> 100 - Sqrt(kept[i].distance)]]
         IN  SortByDistance(results)

\* rebuildIndex(users): users are rows [id, descriptor] of the users table
RECURSIVE AddAll(_, _, _)
AddAll(s, f, users) ==
    IF users = <<>> THEN [s |-> s, f |-> f, added |-> 0, errors |-> 0]
    ELSE LET user == Head(users)
             r == IF user.descriptor = BadJson
                  THEN Ret(s, f, TRUE)
                  ELSE addUser(s, f, user.id, user.descriptor)
             rest == AddAll(r.s, r.f, Tail(users))
         IN  [s |-> rest.s, f |-> rest.f,
              added |-> rest.added + (IF r.threw THEN 0 ELSE 1),
              errors |-> rest.errors + (IF r.threw THEN 1 ELSE 0)]

\* rebuildIndex that leaves out the first row
rebuildIndex_SkipsFirst(s, f, users) ==
    LET r == AddAll(createIndex(s), f, IF users = <<>> THEN users ELSE Tail(users))
    IN  [s |-> r.s, f |-> saveIndex(r.s, r.f), added |-> r.added, errors |-> r.errors]

rebuildIndex(s, f, users) ==
    LET r == AddAll(createIndex(s), f, users)
    IN  [s |-> r.s, f |-> saveIndex(r.s, r.f), added |-> r.added, errors |-> r.errors]

\* ----------------------------------------------------------------- actions
\* lastOp is the call that was made last and whether it threw; for an
\* updateUser of a user the index holds, also its arguments and the
\* descriptor the user had before.
Op(name, user, desc, old, threw) ==
    [op |-> name, user |-> user, desc |-> desc, old |-> old, threw |-> threw]

\* removed is history kept beside the program state so that properties can
\* speak about it: the users that were in the index, were removed from it, and
\* have not been passed to addUser, updateUser or rebuildIndex since.
\* crashes counts the times the process ended with a save unfinished.
InitIndex ==
    /\ hnswService = NewService
    /\ fs = NewFs
    /\ tieBreak \in TieBreaks
    /\ lastOp = Op("new", NoUser, 0, 0, FALSE)

NewStats == [cacheHits |-> 0, totalRecognitions |-> 0, notFound |-> 0]

\* FaceRecognitionConfig constructor: the threshold from the environment or 0.42
NewFaceConfig == [CONFIDENCE_THRESHOLD |-> CONFIDENCE_THRESHOLD]

\* no in-process tier yet (this.memoryCache = null)
NoMemoryCache == [up |-> FALSE, data |-> <<>>]

\* CacheService constructor, up to the first await of _initialize.  With no
\* REDIS_URL the in-process tier is there before any caller runs; with one,
\* the client exists and connect() is pending.  redis is what the Redis
\* server holds.
NewCacheService(enabled, redisUrl) ==
    [enabled |-> enabled,
     usingRedis |-> FALSE,
     redisClient |-> enabled /\ redisUrl,
     memoryCache |-> IF enabled /\ ~redisUrl
                     THEN [up |-> TRUE, data |-> <<>>] ELSE NoMemoryCache,
     redis |-> <<>>,
     phase |-> IF enabled /\ redisUrl THEN "connecting" ELSE "done"]

\* the POST /register requests the server is answering: where each one is
\* in RecognitionController.register, and what it was answered
NoRequest == [phase |-> "idle", ci |-> 0, image |-> 0, userId |-> NoUser, response |-> "none",
              users |-> <<>>]

NewRequests == [r \in 1..NumRequests |-> NoRequest]

\* what createRecognitionJob returns: nothing yet
NoResponse == [jobId |-> 0, status |-> "none", totalImages |-> 0]

\* BatchService constructor: the empty registry.  nextId stands for uuidv4:
\* an id no earlier job had.  response is what createRecognitionJob
\* returned last.
NewBatchService == [jobs |-> <<>>, nextId |-> 1, response |-> NoResponse]

NoPending == [userId |-> NoUser, descriptor |-> 0]

InitBase ==
    /\ InitIndex
    /\ removed = {}
    /\ crashes = 0
    /\ db = <<>>
    /\ cache = <<>>
    /\ stats = NewStats
    /\ pending = NoPending
    /\ faceConfig = NewFaceConfig
    /\ batchService = NewBatchService
    /\ clock = 0
    /\ requests = NewRequests
    /\ adds = 0

Init ==
    /\ InitBase
    /\ cacheService = NewCacheService(TRUE, FALSE)

Initialize ==
    /\ hnswService' = initialize(hnswService, fs)
    /\ lastOp' = Op("initialize", NoUser, 0, IF lastOp.op = "exit" THEN 1 ELSE 0, FALSE)
    /\ UNCHANGED <<fs, tieBreak, extVars, removed, crashes, sysVars>>

AddUser(userId, descriptor) ==
    /\ hnswService.nextLabel < MaxLabel
    /\ LET r == addUser(hnswService, fs, userId, descriptor)
       IN  /\ hnswService' = r.s
           /\ fs' = r.f
           /\ lastOp' = Op("addUser", NoUser, 0, 0, r.threw)
    /\ removed' = removed \ {userId}
    /\ UNCHANGED <<tieBreak, extVars, crashes, sysVars>>

\* the descriptor the index holds for a user (BadDesc when it holds none)
DescOf(s, userId) ==
    IF hasUser(s, userId) /\ s.reverseIdMap[userId] \in DOMAIN s.pts
    THEN s.pts[s.reverseIdMap[userId]].vec
    ELSE BadDesc

UpdateUser(userId, descriptor) ==
    /\ hnswService.nextLabel < MaxLabel
    /\ LET r == updateUser(hnswService, fs, userId, descriptor)
       IN  /\ hnswService' = r.s
           /\ fs' = r.f
           /\ lastOp' = IF hasUser(hnswService, userId)
                        THEN Op("updateUser", userId, descriptor,
                                DescOf(hnswService, userId), r.threw)
                        ELSE Op("addUser", NoUser, 0, 0, r.threw)
    /\ removed' = removed \ {userId}
    /\ UNCHANGED <<tieBreak, extVars, crashes, sysVars>>

RemoveUser(userId) ==
    /\ LET r == removeUser(hnswService, userId)
       IN  /\ hnswService' = r.s
           /\ lastOp' = Op(IF hasUser(hnswService, userId) THEN "removeUser" ELSE "removeNone",
                           NoUser, 0, 0, r.threw)
           /\ removed' = IF hasUser(hnswService, userId) /\ ~r.threw
                         THEN removed \cup {userId} ELSE removed
    /\ UNCHANGED <<fs, tieBreak, extVars, crashes, sysVars>>

\* the rows a query of the users table returns: distinct ids, ORDER BY id
RECURSIVE Rows(_, _)
Rows(ids, d) ==
    IF ids = {} THEN <<>>
    ELSE LET m == CHOOSE x \in ids : \A y \in ids : x <= y
         IN  <<[id |-> m, descriptor |-> d[m]]>> \o Rows(ids \ {m}, d)

RebuildIndex(users) ==
    /\ LET r == rebuildIndex(hnswService, fs, users)
       IN  /\ hnswService' = r.s
           /\ fs' = r.f
           /\ lastOp' = Op("rebuildIndex", NoUser, 0, 0, FALSE)
    /\ removed' = removed \ {users[i].id : i \in 1..Len(users)}
    /\ UNCHANGED <<tieBreak, extVars, crashes, sysVars>>

SaveIndex ==
    /\ fs' = saveIndex(hnswService, fs)
    /\ lastOp' = Op(IF hnswService.hasIndex THEN "saveIndex" ELSE "saveNone",
                    NoUser, 0, 0, FALSE)
    /\ UNCHANGED <<hnswService, tieBreak, extVars, removed, crashes, sysVars>>

TornFile == [state |-> "torn", pts |-> <<>>, savedWith |-> NoData, data |-> NoData]

\* the library finishes the write that saveIndex started
WriteIndexDone ==
    /\ fs.index.state = "writing"
    /\ fs' = [fs EXCEPT !.index.state = "ok"]
    /\ lastOp' = Op("writeIndexDone", NoUser, 0, 0, FALSE)
    /\ UNCHANGED <<hnswService, tieBreak, extVars, removed, crashes, sysVars>>

\* no write of the graph file is under way
Quiet == fs.index.state # "writing"

CrashPoints == {"index", "between", "meta", "graph"}

\* the process dies inside saveIndex: with the graph file partly written
\* and the metadata file untouched, with the graph file complete and the
\* metadata file untouched, with the graph file complete and the metadata
\* file partly written, or with the metadata file complete and the graph
\* file partly written.  The next process starts from the constructor.
SaveIndexCrash(point) ==
    /\ hnswService.hasIndex
    /\ LET done == saveIndex(hnswService, fs)
           written == [done.index EXCEPT !.state = "ok"]
       IN  fs' = CASE point = "index" -> [fs EXCEPT !.index = TornFile]
                   [] point = "between" -> [fs EXCEPT !.index = written]
                   [] point = "meta" -> [fs EXCEPT !.index = written, !.meta = TornFile]
                   [] point = "graph" -> [fs EXCEPT !.index = TornFile, !.meta = done.meta]
    /\ hnswService' = NewService
    /\ lastOp' = Op("crash", NoUser, 0, 0, FALSE)
    /\ crashes' = crashes + 1
    /\ UNCHANGED <<tieBreak, extVars, removed, sysVars>>

\* The calls are followed from a quiet file on: the library finishes a
\* write before the next call comes.  What happens when the process ends
\* before that is followed in SpecCrash.
Next ==
    \/ Quiet /\ Initialize
    \/ WriteIndexDone
    \/ Quiet /\ \E u \in Users, d \in Descs : AddUser(u, d)
    \/ Quiet /\ \E u \in Users, d \in Descs : UpdateUser(u, d)
    \/ Quiet /\ \E u \in Users : RemoveUser(u)
    \/ Quiet /\ \E ids \in SUBSET Users : \E d \in [ids -> DbDescs] : RebuildIndex(Rows(ids, d))
    \/ Quiet /\ SaveIndex

Spec == Init /\ [][Next]_vars

\* the process exits once saveIndex has returned (build-hnsw-index.js,
\* _gracefulShutdown) and the library has not finished the graph file
ExitAfterSave ==
    /\ lastOp.op = "saveIndex"
    /\ fs.index.state = "writing"
    /\ fs' = [fs EXCEPT !.index = TornFile]
    /\ hnswService' = NewService
    /\ lastOp' = Op("exit", NoUser, 0, 0, FALSE)
    /\ crashes' = crashes + 1
    /\ UNCHANGED <<tieBreak, extVars, removed, sysVars>>

\* The same operations, with one process end inside or right after
\* saveIndex and the initialize of the process that follows it.
NextCrash ==
    \/ crashes = 0 /\ Next
    \/ \E p \in CrashPoints : crashes < MaxCrashes /\ SaveIndexCrash(p)
    \/ crashes < MaxCrashes /\ ExitAfterSave
    \/ lastOp.op \in {"crash", "exit"} /\ Initialize

SpecCrash == Init /\ [][NextCrash]_vars

\* ------------------------------------------------- the server around the index
\* db is the users table (id -> row), ids given out in order; cache is the
\* in-memory tier of CacheService; stats are FaceRecognitionService.stats,
\* with notFound the counter recognition_total{status="not_found"} of
\* metricsService (it moves with stats.failedRecognitions).
NoFace == -1

NoMatch == [id |-> NoUser, distance |-> 0]

\* seconds a cached result lives: cacheService.set(cacheKey, result, 1800)
RESULT_TTL == 1800

\* faceConfig.detectFace(image): the descriptor of the face, if there is one
detectFace(image) == IF image \in Vecs THEN image ELSE NoFace

generateCacheKey(imageBuffer) == <<"face_recog", imageBuffer>>

\* User.getActiveUsers(): WHERE is_active = TRUE ORDER BY id
getActiveUsers(d) ==
    Rows({u \in DOMAIN d : d[u].is_active}, [u \in DOMAIN d |-> d[u].descriptor])

\* cacheService.set on the node-cache tier: with maxKeys entries in the
\* cache node-cache throws, and set swallows the error
cacheSet(c, key, value) ==
    IF Cardinality(DOMAIN c) >= CacheMaxSize
    THEN c
    ELSE (key :> value) @@ c

\* _searchHNSW(queryDescriptor): the first of the top-5 within the threshold
searchHNSW(s, tb, queryDescriptor) ==
    LET results == search(s, tb, queryDescriptor, 5, faceConfig.CONFIDENCE_THRESHOLD)
    IN  IF Len(results) = 0 THEN NoMatch
        ELSE IF results[1].distance > faceConfig.CONFIDENCE_THRESHOLD THEN NoMatch
        ELSE [id |-> results[1].userId, distance |-> results[1].distance]

findBestMatch_AtThreshold(queryDescriptor, userDescriptors) ==
    LET dist(i) == Sqrt(Dist2(queryDescriptor, userDescriptors[i].descriptor))
        good == {i \in 1..Len(userDescriptors) :
                    /\ userDescriptors[i].descriptor \in Vecs
                    /\ dist(i) <= faceConfig.CONFIDENCE_THRESHOLD}
    IN  IF good = {} THEN NoMatch
        ELSE LET b == CHOOSE i \in good :
                          \A j \in good : dist(i) < dist(j) \/ (dist(i) = dist(j) /\ i <= j)
             IN  [id |-> userDescriptors[b].id, distance |-> dist(b)]

\* findBestMatch(queryDescriptor, userDescriptors): the linear scan
findBestMatch(queryDescriptor, userDescriptors) ==
    LET dist(i) == Sqrt(Dist2(queryDescriptor, userDescriptors[i].descriptor))
        good == {i \in 1..Len(userDescriptors) :
                    /\ userDescriptors[i].descriptor \in Vecs
                    /\ dist(i) < faceConfig.CONFIDENCE_THRESHOLD}
    IN  IF good = {} THEN NoMatch
        ELSE LET b == CHOOSE i \in good :
                          \A j \in good : dist(i) < dist(j) \/ (dist(i) = dist(j) /\ i <= j)
             IN  [id |-> userDescriptors[b].id, distance |-> dist(b)]

\* recognizeFace that writes the cache whether or not there is a match
recognizeFace_CachesFailure(s, tb, c, st, imageBuffer, userDescriptors) ==
    LET cacheKey == generateCacheKey(imageBuffer)
        detection == detectFace(imageBuffer)
        match == IF s.isInitialized /\ size(s) > 0
                 THEN searchHNSW(s, tb, detection)
                 ELSE IF Len(userDescriptors) > 0
                 THEN findBestMatch(detection, userDescriptors)
                 ELSE NoMatch
    IN  IF cacheKey \in DOMAIN c
        THEN [match |-> c[cacheKey], hit |-> TRUE, threw |-> FALSE, cache |-> c, ttl |-> 0,
              path |-> "none", stats |-> [st EXCEPT !.cacheHits = @ + 1]]
        ELSE IF detection = NoFace
        THEN [match |-> NoMatch, hit |-> FALSE, threw |-> TRUE,
              cache |-> cacheSet(c, cacheKey, NoMatch), ttl |-> RESULT_TTL,
              path |-> "none", stats |-> st]
        ELSE [match |-> match, hit |-> FALSE, threw |-> FALSE,
              cache |-> IF match # NoMatch THEN cacheSet(c, cacheKey, match) ELSE c,
              ttl |-> IF match # NoMatch THEN RESULT_TTL ELSE 0,
              path |-> IF s.isInitialized /\ size(s) > 0 THEN "hnsw"
                       ELSE IF Len(userDescriptors) > 0 THEN "linear" ELSE "none",
              stats |-> [st EXCEPT !.totalRecognitions = @ + 1,
                                   !.notFound = IF match = NoMatch THEN @ + 1 ELSE @]]

recognizeFace_CachesNoMatch(s, tb, c, st, imageBuffer, userDescriptors) ==
    LET cacheKey == generateCacheKey(imageBuffer)
        detection == detectFace(imageBuffer)
        match == IF s.isInitialized /\ size(s) > 0
                 THEN searchHNSW(s, tb, detection)
                 ELSE IF Len(userDescriptors) > 0
                 THEN findBestMatch(detection, userDescriptors)
                 ELSE NoMatch
    IN  IF cacheKey \in DOMAIN c
        THEN [match |-> c[cacheKey], hit |-> TRUE, threw |-> FALSE, cache |-> c, ttl |-> 0,
              path |-> "none", stats |-> [st EXCEPT !.cacheHits = @ + 1]]
        ELSE IF detection = NoFace
        THEN [match |-> NoMatch, hit |-> FALSE, threw |-> TRUE, cache |-> c, ttl |-> 0,
              path |-> "none", stats |-> st]
        ELSE [match |-> match, hit |-> FALSE, threw |-> FALSE,
              cache |-> cacheSet(c, cacheKey, match), ttl |-> RESULT_TTL,
              path |-> IF s.isInitialized /\ size(s) > 0 THEN "hnsw"
                       ELSE IF Len(userDescriptors) > 0 THEN "linear" ELSE "none",
              stats |-> [st EXCEPT !.totalRecognitions = @ + 1,
                                   !.notFound = IF match = NoMatch THEN @ + 1 ELSE @]]

\* recognizeFace(imageBuffer, userDescriptors, {enableCache: true})
recognizeFace(s, tb, c, st, imageBuffer, userDescriptors) ==
    LET cacheKey == generateCacheKey(imageBuffer)
        detection == detectFace(imageBuffer)
        match == IF s.isInitialized /\ size(s) > 0
                 THEN searchHNSW(s, tb, detection)
                 ELSE IF Len(userDescriptors) > 0
                 THEN findBestMatch(detection, userDescriptors)
                 ELSE NoMatch
    IN  IF cacheKey \in DOMAIN c
        THEN [match |-> c[cacheKey], hit |-> TRUE, threw |-> FALSE, cache |-> c, ttl |-> 0,
              path |-> "none", stats |-> [st EXCEPT !.cacheHits = @ + 1]]
        ELSE IF detection = NoFace
        THEN [match |-> NoMatch, hit |-> FALSE, threw |-> TRUE, cache |-> c, ttl |-> 0,
              path |-> "none", stats |-> st]
        ELSE [match |-> match, hit |-> FALSE, threw |-> FALSE,
              cache |-> IF match # NoMatch THEN cacheSet(c, cacheKey, match) ELSE c,
              ttl |-> IF match # NoMatch THEN RESULT_TTL ELSE 0,
              path |-> IF s.isInitialized /\ size(s) > 0 THEN "hnsw"
                       ELSE IF Len(userDescriptors) > 0 THEN "linear" ELSE "none",
              stats |-> [st EXCEPT !.totalRecognitions = @ + 1,
                                   !.notFound = IF match = NoMatch THEN @ + 1 ELSE @]]

\* syncHNSWIndex(userId, descriptor, meta, 'add' | 'update'): errors are logged
syncHNSWIndex_Rethrows(s, f, userId, descriptor) ==
    LET r == addUser(s, f, userId, descriptor)
    IN  [s |-> r.s, f |-> r.f, threw |-> r.threw, failed |-> r.threw]

\* failed: addUser threw and the catch logged it
syncHNSWIndex(s, f, userId, descriptor) ==
    LET r == addUser(s, f, userId, descriptor)
    IN  [s |-> r.s, f |-> r.f, threw |-> FALSE, failed |-> r.threw]

\* app start in a new process (a write the old process had not finished
\* stays cut off): initialize, and rebuild from the table when the index
\* comes up empty
Start ==
    /\ lastOp.op = "new"
    /\ LET f0 == IF fs.index.state = "writing" THEN [fs EXCEPT !.index = TornFile] ELSE fs
           s == initialize(NewService, f0)
           users == getActiveUsers(db)
           r == IF size(s) = 0 /\ Len(users) > 0
                THEN rebuildIndex(s, f0, users)
                ELSE [s |-> s, f |-> f0]
       IN  hnswService' = r.s /\ fs' = r.f
    /\ cache' = <<>>
    /\ stats' = NewStats
    /\ pending' = NoPending
    /\ lastOp' = Op("start", NoUser, 0, 0, FALSE)
    /\ UNCHANGED <<tieBreak, extVars, removed, crashes, db>>

\* pending is the request that has written its row and has not yet reached
\* its call of syncHNSWIndex; one such request is followed at a time.
\* RecognitionController.register, up to User.create
Register(image) ==
    /\ hnswService.isInitialized
    /\ pending = NoPending
    /\ Cardinality(DOMAIN db) < NumUsers
    /\ detectFace(image) # NoFace
    /\ LET id == Cardinality(DOMAIN db) + 1
       IN  /\ db' = (id :> [descriptor |-> detectFace(image), is_active |-> TRUE,
                            ci |-> CiOf(id)]) @@ db
           /\ pending' = [userId |-> id, descriptor |-> detectFace(image)]
    /\ lastOp' = Op("register", NoUser, 0, 0, FALSE)
    /\ UNCHANGED <<hnswService, fs, tieBreak, extVars, removed, crashes, cache, stats>>

\* RecognitionController.update, up to User.update
Update(userId, image) ==
    /\ hnswService.isInitialized
    /\ pending = NoPending
    /\ userId \in DOMAIN db /\ db[userId].is_active
    /\ detectFace(image) # NoFace
    /\ db' = [db EXCEPT ![userId].descriptor = detectFace(image)]
    /\ pending' = [userId |-> userId, descriptor |-> detectFace(image)]
    /\ lastOp' = Op("update", NoUser, 0, 0, FALSE)
    /\ UNCHANGED <<hnswService, fs, tieBreak, extVars, removed, crashes, cache, stats>>

\* the rest of register and update: the call of syncHNSWIndex
SyncIndex ==
    /\ pending # NoPending
    /\ hnswService.nextLabel < MaxLabel
    /\ LET r == syncHNSWIndex(hnswService, fs, pending.userId, pending.descriptor)
       IN  /\ hnswService' = r.s
           /\ fs' = r.f
           /\ lastOp' = Op("syncHNSWIndex", pending.userId, pending.descriptor,
                           IF r.failed THEN 1 ELSE 0, r.threw)
    /\ pending' = NoPending
    /\ UNCHANGED <<tieBreak, extVars, removed, crashes, db, cache, stats>>

\* UserController.delete: the soft delete
Delete(userId) ==
    /\ hnswService.isInitialized
    /\ userId \in DOMAIN db /\ db[userId].is_active
    /\ db' = [db EXCEPT ![userId].is_active = FALSE]
    /\ lastOp' = Op("delete", NoUser, 0, 0, FALSE)
    /\ UNCHANGED <<hnswService, fs, tieBreak, extVars, removed, crashes, cache, stats, pending>>

\* RecognitionController.recognize
Recognize(image) ==
    /\ hnswService.isInitialized
    /\ stats.cacheHits + stats.totalRecognitions < MaxCalls
    /\ LET users == IF ~hnswService.isInitialized \/ size(hnswService) = 0
                    THEN getActiveUsers(db) ELSE <<>>
           r == recognizeFace(hnswService, tieBreak, cache, stats, image, users)
       IN  IF size(hnswService) = 0 /\ Len(users) = 0
           THEN /\ lastOp' = Op("recognizeNoUsers", NoUser, image, 0, FALSE)
                /\ UNCHANGED <<cache, stats>>
           ELSE /\ lastOp' = Op("recognize", r.match.id, image, IF r.hit THEN 1 ELSE 0, r.threw)
                /\ cache' = r.cache
                /\ stats' = r.stats
    /\ UNCHANGED <<hnswService, fs, tieBreak, extVars, removed, crashes, db, pending>>

\* the index holds exactly the active users of the table, each under a
\* live point with the descriptor of its row, and no request is under way
InSync(s, d, p) ==
    /\ p = NoPending
    /\ DOMAIN s.reverseIdMap = {u \in DOMAIN d : d[u].is_active}
    /\ DOMAIN s.idMap = {s.reverseIdMap[u] : u \in DOMAIN s.reverseIdMap}
    /\ \A u \in DOMAIN s.reverseIdMap :
           LET label == s.reverseIdMap[u]
           IN  /\ s.idMap[label].userId = u
               /\ label \in DOMAIN s.pts
               /\ ~s.pts[label].del
               /\ s.pts[label].vec = d[u].descriptor

\* lastOp.old tells whether the index was in sync with the table when the
\* rebuild was asked for
RebuildHNSWIndex ==
    /\ hnswService.isInitialized
    /\ LET r == rebuildIndex(hnswService, fs, getActiveUsers(db))
       IN  hnswService' = r.s /\ fs' = r.f
    /\ lastOp' = Op("rebuildIndex", NoUser, 0,
                    IF InSync(hnswService, db, pending) THEN 1 ELSE 0, FALSE)
    /\ UNCHANGED <<tieBreak, extVars, removed, crashes, sysVars>>

\* the TTL of a cache entry runs out
Expire(key) ==
    /\ key \in DOMAIN cache
    /\ cache' = Without(cache, key)
    /\ lastOp' = Op("expire", NoUser, 0, 0, FALSE)
    /\ UNCHANGED <<hnswService, fs, tieBreak, extVars, removed, crashes, db, stats, pending>>

NextSys ==
    \/ Start
    \/ WriteIndexDone
    \/ Quiet /\ \E image \in Images : Register(image)
    \/ Quiet /\ \E u \in Users, image \in Images : Update(u, image)
    \/ Quiet /\ SyncIndex
    \/ Quiet /\ \E u \in Users : Delete(u)
    \/ Quiet /\ \E image \in Images : Recognize(image)
    \/ Quiet /\ RebuildHNSWIndex
    \/ Quiet /\ \E image \in Images : Expire(generateCacheKey(image))

SpecSys == Init /\ [][NextSys]_vars

\* the thresholds PUT /config sets: the default and one above the distance
\* between neighbouring faces
ConfigThresholds == {CONFIDENCE_THRESHOLD, Unit, CONFIDENCE_THRESHOLD + Unit}

\* faceConfig.updateConfiguration({confidenceThreshold})
UpdateConfiguration(confidenceThreshold) ==
    /\ hnswService.isInitialized
    /\ faceConfig' = [faceConfig EXCEPT !.CONFIDENCE_THRESHOLD = confidenceThreshold]
    /\ lastOp' = Op("updateConfiguration", NoUser, 0, 0, FALSE)
    /\ UNCHANGED <<hnswService, fs, tieBreak, removed, crashes, sysVars,
                   batchService, clock, cacheService, requests, adds>>

\* registration and recognition with the threshold changed while the
\* server runs
NextConfig ==
    \/ Start
    \/ WriteIndexDone
    \/ Quiet /\ \E image \in Images : Register(image)
    \/ Quiet /\ SyncIndex
    \/ Quiet /\ \E image \in Images : Recognize(image)
    \/ Quiet /\ \E image \in Images : Expire(generateCacheKey(image))
    \/ Quiet /\ \E t \in ConfigThresholds : UpdateConfiguration(t)

SpecConfig == Init /\ [][NextConfig]_vars

\* ------------------------------------------------------------ BatchService
JobIds == 1..MaxJobs

\* an item of a batch: an image with a face, or one without
BatchImages == {0, MaxCoord + 1}

\* the arrays createRecognitionJob is called with: from empty to one longer
\* than MAX_BATCH_SIZE
ItemSeqs == UNION {[1..n -> BatchImages] : n \in 0..(MaxBatchSize + 1)}

Terminal == {"completed", "failed"}

\* the job object createRecognitionJob builds, with the variables of the
\* closure that processes it: phase is how far _processJobAsync has come,
\* index the cursor of _processWithConcurrency, workers the item (by
\* position) each worker has in flight, 0 once the worker has left its loop
newJob(jobId, images, now) ==
    [id |-> jobId, status |-> "pending", totalImages |-> Len(images),
     processedImages |-> 0, results |-> <<>>, errors |-> <<>>, createdAt |-> now,
     images |-> images, phase |-> "new", activeUsers |-> <<>>,
     index |-> 0, workers |-> <<>>, globalError |-> FALSE]

\* _processJobAsync up to its first await (User.getActiveUsers)
processJobAsync(job) ==
    [job EXCEPT !.status = "processing", !.phase = "loading"]

createRecognitionJob(b, images, now) ==
    IF Len(images) = 0 \/ Len(images) > MaxBatchSize
    THEN [b |-> b, threw |-> TRUE]
    ELSE LET jobId == b.nextId
             job == processJobAsync(newJob(jobId, images, now))
         IN  [b |-> [jobs |-> (jobId :> job) @@ b.jobs,
                     nextId |-> b.nextId + 1,
                     response |-> [jobId |-> jobId, status |-> job.status,
                                   totalImages |-> job.totalImages]],
              threw |-> FALSE]

\* Math.round((job.processedImages / job.totalImages) * 100)
progress(job) == (200 * job.processedImages + job.totalImages) \div (2 * job.totalImages)

NoJob == [id |-> 0, status |-> "none", totalImages |-> 0, processedImages |-> 0,
          progress |-> 0, results |-> <<>>, errors |-> <<>>]

getJob(b, jobId) ==
    IF jobId \notin DOMAIN b.jobs THEN NoJob
    ELSE LET job == b.jobs[jobId]
         IN  [id |-> job.id, status |-> job.status, totalImages |-> job.totalImages,
              processedImages |-> job.processedImages, progress |-> progress(job),
              results |-> job.results, errors |-> job.errors]

\* _processWithConcurrency that starts one worker for every item
processWithConcurrency_WorkerPerItem(job, concurrency) ==
    LET n == Len(job.images)
    IN  [job EXCEPT !.phase = "running", !.workers = [w \in 1..n |-> w], !.index = n]

\* _processWithConcurrency whose workers all start on the first item
processWithConcurrency_SameFirstItem(job, concurrency) ==
    LET n == Min(concurrency, Len(job.images))
    IN  [job EXCEPT !.phase = "running", !.workers = [w \in 1..n |-> 1], !.index = 1]

\* _processWithConcurrency up to the first await of each worker: every
\* worker takes the item under the cursor and calls the processor
processWithConcurrency(job, concurrency) ==
    LET n == Min(concurrency, Len(job.images))
    IN  [job EXCEPT !.phase = "running", !.workers = [w \in 1..n |-> w], !.index = n]

\* the worker's loop after its item: the next item, or the end of the loop
nextItem(job, w) ==
    IF job.index < Len(job.images)
    THEN [job EXCEPT !.workers[w] = job.index + 1, !.index = @ + 1]
    ELSE [job EXCEPT !.workers[w] = 0]

\* the job that is never marked completed
whenAllDone_Never(job) == job

\* await Promise.all(workers), then status = 'completed'
whenAllDone(job) ==
    IF \A w \in DOMAIN job.workers : job.workers[w] = 0
    THEN [job EXCEPT !.status = "completed", !.phase = "done"]
    ELSE job

\* the processor that counts an item only when it gave a result
finishItem_ErrorNotCounted(job, w, r) ==
    LET itemId == job.workers[w]
        j1 == IF r.threw
              THEN [job EXCEPT !.errors = Append(@, [id |-> itemId])]
              ELSE [job EXCEPT !.results = Append(@, [id |-> itemId, match |-> r.match.id]),
                               !.processedImages = @ + 1]
    IN  whenAllDone(nextItem(j1, w))

\* the job completed as soon as one worker has left its loop
finishItem_FirstWorkerCompletes(job, w, r) ==
    LET itemId == job.workers[w]
        j1 == IF r.threw
              THEN [job EXCEPT !.errors = Append(@, [id |-> itemId])]
              ELSE [job EXCEPT !.results = Append(@, [id |-> itemId, match |-> r.match.id])]
        j2 == nextItem([j1 EXCEPT !.processedImages = @ + 1], w)
    IN  IF j2.workers[w] = 0 THEN [j2 EXCEPT !.status = "completed"] ELSE j2

\* the processor that fails the job when an item fails
finishItem_ErrorFailsJob(job, w, r) ==
    LET itemId == job.workers[w]
        j1 == IF r.threw
              THEN [job EXCEPT !.errors = Append(@, [id |-> itemId]),
                               !.status = "failed", !.globalError = TRUE, !.phase = "done"]
              ELSE [job EXCEPT !.results = Append(@, [id |-> itemId, match |-> r.match.id])]
    IN  IF r.threw THEN [j1 EXCEPT !.processedImages = @ + 1]
        ELSE whenAllDone(nextItem([j1 EXCEPT !.processedImages = @ + 1], w))

\* the processor once recognizeFace has returned or thrown (r), and the
\* worker's loop after it
finishItem(job, w, r) ==
    LET itemId == job.workers[w]
        j1 == IF r.threw
              THEN [job EXCEPT !.errors = Append(@, [id |-> itemId])]
              ELSE [job EXCEPT !.results = Append(@, [id |-> itemId, match |-> r.match.id])]
    IN  whenAllDone(nextItem([j1 EXCEPT !.processedImages = @ + 1], w))

\* the interval callback that removes every job older than the TTL
cleanup_IgnoresStatus(b, now) ==
    [b EXCEPT !.jobs = [j \in {i \in DOMAIN b.jobs : ~(now - b.jobs[i].createdAt > JobTtl)}
                           |-> b.jobs[j]]]

\* the callback of _startCleanupInterval
cleanup(b, now) ==
    [b EXCEPT !.jobs = [j \in {i \in DOMAIN b.jobs :
                                  ~(/\ now - b.jobs[i].createdAt > JobTtl
                                    /\ b.jobs[i].status \in Terminal)}
                           |-> b.jobs[j]]]

batchVars == <<hnswService, fs, tieBreak, removed, crashes, db, pending, faceConfig,
               cacheService, requests, adds>>

CreateRecognitionJob(images) ==
    /\ batchService.nextId <= MaxJobs
    /\ LET r == createRecognitionJob(batchService, images, clock)
       IN  /\ batchService' = r.b
           /\ lastOp' = Op("createRecognitionJob", IF r.threw THEN NoUser ELSE r.b.response.jobId,
                           Len(images), 0, r.threw)
    /\ UNCHANGED <<batchVars, cache, stats, clock>>

\* User.getActiveUsers resolves and _processWithConcurrency starts
UsersLoaded(jobId) ==
    /\ jobId \in DOMAIN batchService.jobs
    /\ batchService.jobs[jobId].phase = "loading"
    /\ LET job == [batchService.jobs[jobId] EXCEPT !.activeUsers = getActiveUsers(db)]
       IN  batchService' = [batchService EXCEPT
                                !.jobs[jobId] = processWithConcurrency(job, MaxConcurrency)]
    /\ lastOp' = Op("usersLoaded", jobId, 0, 0, FALSE)
    /\ UNCHANGED <<batchVars, cache, stats, clock>>

\* User.getActiveUsers rejects: the catch of _processJobAsync
UsersFailed(jobId) ==
    /\ jobId \in DOMAIN batchService.jobs
    /\ batchService.jobs[jobId].phase = "loading"
    /\ batchService' = [batchService EXCEPT !.jobs[jobId].status = "failed",
                                            !.jobs[jobId].globalError = TRUE,
                                            !.jobs[jobId].phase = "done"]
    /\ lastOp' = Op("usersFailed", jobId, 0, 0, FALSE)
    /\ UNCHANGED <<batchVars, cache, stats, clock>>

\* recognizeFace returns or throws for the item worker w has in flight
ItemDone(jobId, w) ==
    /\ jobId \in DOMAIN batchService.jobs
    /\ LET job == batchService.jobs[jobId]
       IN  /\ job.phase = "running"
           /\ w \in DOMAIN job.workers
           /\ job.workers[w] # 0
           /\ LET r == recognizeFace(hnswService, tieBreak, cache, stats,
                                     job.images[job.workers[w]], job.activeUsers)
              IN  /\ batchService' = [batchService EXCEPT !.jobs[jobId] = finishItem(job, w, r)]
                  /\ cache' = r.cache
                  /\ stats' = r.stats
    /\ lastOp' = Op("itemDone", jobId, w, 0, FALSE)
    /\ UNCHANGED <<batchVars, clock>>

Cleanup ==
    /\ batchService' = cleanup(batchService, clock)
    /\ lastOp' = Op("cleanup", NoUser, 0, 0, FALSE)
    /\ UNCHANGED <<batchVars, cache, stats, clock>>

\* time passes
Tick ==
    /\ clock < MaxClock
    /\ clock' = clock + 1
    /\ lastOp' = Op("tick", NoUser, 0, 0, FALSE)
    /\ UNCHANGED <<batchVars, cache, stats, batchService>>

NextBatch ==
    \/ \E images \in ItemSeqs : CreateRecognitionJob(images)
    \/ \E j \in JobIds : UsersLoaded(j)
    \/ \E j \in JobIds : UsersFailed(j)
    \/ \E j \in JobIds, w \in 1..MaxConcurrency : ItemDone(j, w)
    \/ Cleanup
    \/ Tick

SpecBatch == Init /\ [][NextBatch]_vars

\* every call the job waits for returns or throws in the end
SpecBatchFair ==
    /\ SpecBatch
    /\ \A j \in JobIds : WF_vars(UsersLoaded(j) \/ UsersFailed(j))
    /\ \A j \in JobIds, w \in 1..MaxConcurrency : WF_vars(ItemDone(j, w))

\* ----------------------------------------------------------- CacheService
CacheKeys == 1..NumCacheKeys

CacheValues == 1..NumCacheValues

\* get returns null
CacheNull == 0

\* the patterns invalidatePattern is called with, as the keys they match
Patterns == {CacheKeys} \cup {{k} : k \in CacheKeys}

\* JSON.stringify(value) and JSON.parse(raw)
Stringify(value) == <<"json", value>>

Parse(raw) == raw[2]

initMemoryCache(c) ==
    IF c.memoryCache.up THEN c
    ELSE [c EXCEPT !.memoryCache = [up |-> TRUE, data |-> <<>>]]

\* what a cache operation gives back: the service after it, the value
\* returned, whether the backend raised an error, whether the call threw
CacheRet(c, ret, err, threw) == [c |-> c, ret |-> ret, err |-> err, threw |-> threw]

\* fail: the Redis command of this call is rejected
get(c, key, fail) ==
    IF ~c.enabled THEN CacheRet(c, CacheNull, FALSE, FALSE)
    ELSE IF c.usingRedis /\ c.redisClient
    THEN IF fail THEN CacheRet(c, CacheNull, TRUE, FALSE)
         ELSE IF key \in DOMAIN c.redis
         THEN CacheRet(c, Parse(c.redis[key]), FALSE, FALSE)
         ELSE CacheRet(c, CacheNull, FALSE, FALSE)
    ELSE IF c.memoryCache.up /\ key \in DOMAIN c.memoryCache.data
    THEN CacheRet(c, c.memoryCache.data[key], FALSE, FALSE)
    ELSE CacheRet(c, CacheNull, FALSE, FALSE)

\* set with the error of the backend passed on to the caller
set_NoCatch(c, key, value, fail) ==
    IF ~c.enabled THEN CacheRet(c, 0, FALSE, FALSE)
    ELSE IF c.usingRedis /\ c.redisClient
    THEN IF fail THEN CacheRet(c, 0, TRUE, TRUE)
         ELSE CacheRet([c EXCEPT !.redis = (key :> Stringify(value)) @@ @], 1, FALSE, FALSE)
    ELSE IF c.memoryCache.up
    THEN IF Cardinality(DOMAIN c.memoryCache.data) >= CacheMaxSize
         THEN CacheRet(c, 0, TRUE, TRUE)
         ELSE CacheRet([c EXCEPT !.memoryCache.data = cacheSet(@, key, value)], 1, FALSE, FALSE)
    ELSE CacheRet(c, 1, FALSE, FALSE)

\* set(key, value, ttl): 1 is true, 0 is false
set(c, key, value, fail) ==
    IF ~c.enabled THEN CacheRet(c, 0, FALSE, FALSE)
    ELSE IF c.usingRedis /\ c.redisClient
    THEN IF fail THEN CacheRet(c, 0, TRUE, FALSE)
         ELSE CacheRet([c EXCEPT !.redis = (key :> Stringify(value)) @@ @], 1, FALSE, FALSE)
    ELSE IF c.memoryCache.up
    THEN IF Cardinality(DOMAIN c.memoryCache.data) >= CacheMaxSize
         THEN CacheRet(c, 0, TRUE, FALSE)
         ELSE CacheRet([c EXCEPT !.memoryCache.data = cacheSet(@, key, value)], 1, FALSE, FALSE)
    ELSE CacheRet(c, 1, FALSE, FALSE)

del(c, key, fail) ==
    IF ~c.enabled THEN CacheRet(c, 0, FALSE, FALSE)
    ELSE IF c.usingRedis /\ c.redisClient
    THEN IF fail THEN CacheRet(c, 0, TRUE, FALSE)
         ELSE CacheRet([c EXCEPT !.redis = Without(@, key)], 1, FALSE, FALSE)
    ELSE IF c.memoryCache.up
    THEN CacheRet([c EXCEPT !.memoryCache.data = Without(@, key)], 1, FALSE, FALSE)
    ELSE CacheRet(c, 1, FALSE, FALSE)

flush(c, fail) ==
    IF ~c.enabled THEN CacheRet(c, 0, FALSE, FALSE)
    ELSE IF c.usingRedis /\ c.redisClient
    THEN IF fail THEN CacheRet(c, 0, TRUE, FALSE)
         ELSE CacheRet([c EXCEPT !.redis = <<>>], 1, FALSE, FALSE)
    ELSE IF c.memoryCache.up
    THEN CacheRet([c EXCEPT !.memoryCache.data = <<>>], 1, FALSE, FALSE)
    ELSE CacheRet(c, 1, FALSE, FALSE)

\* invalidatePattern(pattern): the number of keys removed; only Redis
invalidatePattern(c, pattern, fail) ==
    IF ~c.enabled THEN CacheRet(c, 0, FALSE, FALSE)
    ELSE IF c.usingRedis /\ c.redisClient
    THEN IF fail THEN CacheRet(c, 0, TRUE, FALSE)
         ELSE LET keys == (DOMAIN c.redis) \cap pattern
              IN  CacheRet([c EXCEPT !.redis = [k \in (DOMAIN @) \ keys |-> @[k]]],
                           Cardinality(keys), FALSE, FALSE)
    ELSE CacheRet(c, 0, FALSE, FALSE)

\* the cache call made last: its arguments, what it returned, whether the
\* backend raised an error and whether the call threw
CacheOp(name, key, value, r) ==
    [op |-> name, key |-> key, value |-> value, ret |-> r.ret, err |-> r.err,
     threw |-> r.threw]

cacheFrame == <<hnswService, fs, tieBreak, removed, crashes, sysVars,
                faceConfig, batchService, clock, requests, adds>>

\* connect() and ping() succeed
RedisConnected ==
    /\ cacheService.phase = "connecting"
    /\ cacheService' = [cacheService EXCEPT !.usingRedis = TRUE, !.phase = "done"]
    /\ lastOp' = Op("redisConnected", NoUser, 0, 0, FALSE)
    /\ UNCHANGED cacheFrame

\* connect() or ping() fails: the catch of _initRedis, then _initialize
\* falls back to the in-process tier
RedisFailed ==
    /\ cacheService.phase = "connecting"
    /\ cacheService' = initMemoryCache([cacheService EXCEPT !.usingRedis = FALSE,
                                                            !.redisClient = FALSE,
                                                            !.phase = "done"])
    /\ lastOp' = Op("redisFailed", NoUser, 0, 0, FALSE)
    /\ UNCHANGED cacheFrame

\* the 'close' event of the client
RedisClose ==
    /\ cacheService.phase = "done"
    /\ cacheService.redisClient
    /\ cacheService.usingRedis
    /\ cacheService' = initMemoryCache([cacheService EXCEPT !.usingRedis = FALSE])
    /\ lastOp' = Op("redisClose", NoUser, 0, 0, FALSE)
    /\ UNCHANGED cacheFrame

\* the 'connect' event of the client, after it has reconnected
RedisReconnect ==
    /\ cacheService.phase = "done"
    /\ cacheService.redisClient
    /\ ~cacheService.usingRedis
    /\ cacheService' = [cacheService EXCEPT !.usingRedis = TRUE]
    /\ lastOp' = Op("redisReconnect", NoUser, 0, 0, FALSE)
    /\ UNCHANGED cacheFrame

CacheGet(key, fail) ==
    /\ LET r == get(cacheService, key, fail)
       IN  cacheService' = r.c /\ lastOp' = CacheOp("get", key, 0, r)
    /\ UNCHANGED cacheFrame

CacheSet(key, value, fail) ==
    /\ LET r == set(cacheService, key, value, fail)
       IN  cacheService' = r.c /\ lastOp' = CacheOp("set", key, value, r)
    /\ UNCHANGED cacheFrame

CacheDel(key, fail) ==
    /\ LET r == del(cacheService, key, fail)
       IN  cacheService' = r.c /\ lastOp' = CacheOp("del", key, 0, r)
    /\ UNCHANGED cacheFrame

CacheFlush(fail) ==
    /\ LET r == flush(cacheService, fail)
       IN  cacheService' = r.c /\ lastOp' = CacheOp("flush", 0, 0, r)
    /\ UNCHANGED cacheFrame

CacheInvalidatePattern(pattern, fail) ==
    /\ LET r == invalidatePattern(cacheService, pattern, fail)
       IN  cacheService' = r.c /\ lastOp' = CacheOp("invalidatePattern", 0, 0, r)
    /\ UNCHANGED cacheFrame

\* the TTL of an entry runs out, in Redis or in the in-process tier
TtlExpires(key) ==
    /\ \/ /\ key \in DOMAIN cacheService.redis
          /\ cacheService' = [cacheService EXCEPT !.redis = Without(@, key)]
       \/ /\ key \in DOMAIN cacheService.memoryCache.data
          /\ cacheService' = [cacheService EXCEPT !.memoryCache.data = Without(@, key)]
    /\ lastOp' = Op("ttlExpires", NoUser, 0, 0, FALSE)
    /\ UNCHANGED cacheFrame

NextCache ==
    \/ RedisConnected
    \/ RedisFailed
    \/ RedisClose
    \/ RedisReconnect
    \/ \E k \in CacheKeys, fail \in BOOLEAN : CacheGet(k, fail)
    \/ \E k \in CacheKeys, v \in CacheValues, fail \in BOOLEAN : CacheSet(k, v, fail)
    \/ \E k \in CacheKeys, fail \in BOOLEAN : CacheDel(k, fail)
    \/ \E fail \in BOOLEAN : CacheFlush(fail)
    \/ \E pattern \in Patterns, fail \in BOOLEAN : CacheInvalidatePattern(pattern, fail)
    \/ \E k \in CacheKeys : TtlExpires(k)

\* the cache service in every configuration: enabled or not, with or
\* without REDIS_URL
InitCache ==
    /\ InitBase
    /\ \E enabled \in BOOLEAN, redisUrl \in BOOLEAN :
           cacheService = NewCacheService(enabled, redisUrl)

SpecCache == InitCache /\ [][NextCache]_vars

\* ---------------------------------------------------------------- shutdown
\* cacheService.disconnect(): the client, when there is one, is closed
disconnect(c) ==
    IF c.redisClient /\ c.usingRedis
    THEN initMemoryCache([c EXCEPT !.usingRedis = FALSE])
    ELSE c

\* _gracefulShutdown(signal): saveIndex, cacheService.disconnect, then
\* process.exit(0).  The jobs of BatchService are left as they are at the
\* exit; nothing runs after it.
GracefulShutdown ==
    /\ fs' = saveIndex(hnswService, fs)
    /\ cacheService' = disconnect(cacheService)
    /\ lastOp' = Op("shutdown", NoUser, 0, 0, FALSE)
    /\ UNCHANGED <<hnswService, tieBreak, removed, crashes, sysVars, faceConfig,
                   batchService, clock, requests, adds>>

\* the batch engine until a termination signal ends the process
Running == lastOp.op # "shutdown"

NextShutdown ==
    \/ Running /\ \E images \in ItemSeqs : CreateRecognitionJob(images)
    \/ Running /\ \E j \in JobIds : UsersLoaded(j)
    \/ Running /\ \E j \in JobIds : UsersFailed(j)
    \/ Running /\ \E j \in JobIds, w \in 1..MaxConcurrency : ItemDone(j, w)
    \/ Running /\ Cleanup
    \/ Running /\ Tick
    \/ Running /\ GracefulShutdown

SpecShutdown == Init /\ [][NextShutdown]_vars

\* --------------------------------------------- register, request by request
Cis == {CiOf(u) : u \in Users}

\* User.findByCI(ci): the active row with this ci, NoUser when there is none
findByCI(d, ci) ==
    IF \E u \in DOMAIN d : d[u].ci = ci /\ d[u].is_active
    THEN CHOOSE u \in DOMAIN d : d[u].ci = ci /\ d[u].is_active
    ELSE NoUser

\* User.create(userData): the INSERT fails when a row, active or not, has
\* the ci (ci TEXT UNIQUE NOT NULL)
create(d, ci, descriptor) ==
    IF \E u \in DOMAIN d : d[u].ci = ci
    THEN [threw |-> TRUE, id |-> NoUser, d |-> d]
    ELSE LET id == Cardinality(DOMAIN d) + 1
         IN  [threw |-> FALSE, id |-> id,
              d |-> (id :> [descriptor |-> descriptor, is_active |-> TRUE, ci |-> ci]) @@ d]

enrollFrame == <<tieBreak, removed, crashes, cache, stats, pending,
                 faceConfig, batchService, clock, cacheService, adds>>

\* register up to its first awaits: the fields are there, findByCI answers
RegisterBegin(r, ci, image) ==
    /\ hnswService.isInitialized
    /\ requests[r].phase = "idle"
    /\ requests' = [requests EXCEPT ![r] =
           IF findByCI(db, ci) # NoUser
           THEN [phase |-> "done", ci |-> ci, image |-> image, userId |-> NoUser,
                 response |-> "USER_EXISTS", users |-> <<>>]
           ELSE [phase |-> "checked", ci |-> ci, image |-> image, userId |-> NoUser,
                 response |-> "none", users |-> <<>>]]
    /\ lastOp' = Op("registerBegin", NoUser, image, r, FALSE)
    /\ UNCHANGED <<hnswService, fs, db, enrollFrame>>

\* register from registerFace to User.create; an error goes to the error
\* handler, which answers INTERNAL_SERVER_ERROR
RegisterCreate(r) ==
    /\ requests[r].phase = "checked"
    /\ LET descriptor == detectFace(requests[r].image)
           c == create(db, requests[r].ci, descriptor)
       IN  IF descriptor = NoFace \/ c.threw
           THEN /\ requests' = [requests EXCEPT ![r].phase = "done",
                                                ![r].response = "INTERNAL_SERVER_ERROR"]
                /\ lastOp' = Op("registerCreate", NoUser, requests[r].image, r, TRUE)
                /\ UNCHANGED db
           ELSE /\ requests' = [requests EXCEPT ![r].phase = "created", ![r].userId = c.id]
                /\ db' = c.d
                /\ lastOp' = Op("registerCreate", c.id, requests[r].image, r, FALSE)
    /\ UNCHANGED <<hnswService, fs, enrollFrame>>

\* the rest of register: syncHNSWIndex and the 201 response
RegisterSync(r) ==
    /\ requests[r].phase = "created"
    /\ Quiet
    /\ hnswService.nextLabel < MaxLabel
    /\ LET s == syncHNSWIndex(hnswService, fs, requests[r].userId,
                              detectFace(requests[r].image))
       IN  /\ hnswService' = s.s
           /\ fs' = s.f
           /\ requests' = [requests EXCEPT
                  ![r].phase = "done",
                  ![r].response = IF s.threw THEN "INTERNAL_SERVER_ERROR" ELSE "created"]
           /\ lastOp' = Op("registerSync", requests[r].userId, requests[r].image, r, s.threw)
    /\ UNCHANGED <<db, enrollFrame>>

\* the response is sent; the connection takes the next request
RegisterEnd(r) ==
    /\ requests[r].phase = "done"
    /\ requests' = [requests EXCEPT ![r] = NoRequest]
    /\ lastOp' = Op("registerEnd", NoUser, 0, r, FALSE)
    /\ UNCHANGED <<hnswService, fs, db, enrollFrame>>

NextEnroll ==
    \/ Start
    \/ WriteIndexDone
    \/ \E r \in 1..NumRequests, ci \in Cis, image \in Images : RegisterBegin(r, ci, image)
    \/ \E r \in 1..NumRequests : RegisterCreate(r)
    \/ \E r \in 1..NumRequests : RegisterSync(r)
    \/ \E r \in 1..NumRequests : RegisterEnd(r)
    \/ Quiet /\ \E u \in Users : Delete(u)

SpecEnroll == Init /\ [][NextEnroll]_vars

\* --------------------------------------- saves on a directory that fails
\* the data directory stops accepting writes (read-only, no permission)
DiskFails ==
    /\ fs.writable
    /\ fs' = [fs EXCEPT !.writable = FALSE]
    /\ lastOp' = Op("diskFails", NoUser, 0, 0, FALSE)
    /\ UNCHANGED <<hnswService, tieBreak, extVars, removed, crashes, sysVars>>

DiskRecovers ==
    /\ ~fs.writable
    /\ fs' = [fs EXCEPT !.writable = TRUE]
    /\ lastOp' = Op("diskRecovers", NoUser, 0, 0, FALSE)
    /\ UNCHANGED <<hnswService, tieBreak, extVars, removed, crashes, sysVars>>

NextDisk ==
    \/ Running /\ ~hnswService.isInitialized /\ Initialize
    \/ Running /\ WriteIndexDone
    \/ Running /\ Quiet /\ \E u \in Users, d \in Vecs : AddUser(u, d)
    \/ Running /\ Quiet /\ hnswService.isInitialized /\
           \E ids \in SUBSET Users : \E d \in [ids -> Vecs] : RebuildIndex(Rows(ids, d))
    \/ Running /\ DiskFails
    \/ Running /\ DiskRecovers
    \/ Running /\ Quiet /\ GracefulShutdown

SpecDisk == Init /\ [][NextDisk]_vars

\* ------------------------------------------ the periodic save, add by add
\* addUser, with the successful adds of new users counted in adds and
\* lastOp.old = 1 when the call reached saveIndex
AddUserNth(userId, descriptor) ==
    /\ hnswService.nextLabel < MaxLabel
    /\ adds < MaxAdds
    /\ LET r == addUser(hnswService, fs, userId, descriptor)
       IN  /\ hnswService' = r.s
           /\ fs' = r.f
           /\ lastOp' = Op("addUserNth", userId, descriptor,
                           IF r.f # fs THEN 1 ELSE 0, r.threw)
           /\ adds' = IF ~hasUser(hnswService, userId) /\ ~r.threw THEN adds + 1 ELSE adds
    /\ removed' = removed \ {userId}
    /\ UNCHANGED <<tieBreak, faceConfig, batchService, clock, cacheService, requests,
                   crashes, sysVars>>

NextPersist ==
    \/ ~hnswService.isInitialized /\ Initialize
    \/ \E u \in Users, d \in Descs : AddUserNth(u, d)
    \/ \E u \in Users, d \in Descs : hasUser(hnswService, u) /\ UpdateUser(u, d)
    \/ \E u \in Users : RemoveUser(u)
    \/ WriteIndexDone

SpecPersist == Init /\ [][NextPersist]_vars

\* ----------------------------------------------- update, request by request
\* RecognitionController.update from findByCI to the moment the UPDATE of
\* User.update takes effect in the store; the promise of User.update has
\* not resolved yet
UpdateWrite(r, ci, image) ==
    /\ hnswService.isInitialized
    /\ requests[r].phase = "idle"
    /\ LET userId == findByCI(db, ci)
           descriptor == detectFace(image)
       IN  IF userId = NoUser
           THEN /\ requests' = [requests EXCEPT ![r] =
                       [phase |-> "done", ci |-> ci, image |-> image, userId |-> NoUser,
                        response |-> "USER_NOT_FOUND", users |-> <<>>]]
                /\ lastOp' = Op("updateWrite", NoUser, image, r, FALSE)
                /\ UNCHANGED db
           ELSE IF descriptor = NoFace
           THEN /\ requests' = [requests EXCEPT ![r] =
                       [phase |-> "done", ci |-> ci, image |-> image, userId |-> userId,
                        response |-> "INTERNAL_SERVER_ERROR", users |-> <<>>]]
                /\ lastOp' = Op("updateWrite", userId, image, r, TRUE)
                /\ UNCHANGED db
           ELSE /\ requests' = [requests EXCEPT ![r] =
                       [phase |-> "written", ci |-> ci, image |-> image, userId |-> userId,
                        response |-> "none", users |-> <<>>]]
                /\ db' = [db EXCEPT ![userId].descriptor = descriptor]
                /\ lastOp' = Op("updateWrite", userId, image, r, FALSE)
    /\ UNCHANGED <<hnswService, fs, enrollFrame>>

\* the promise of User.update resolves and update goes on: syncHNSWIndex
\* with the descriptor of this request, and the response
UpdateSync(r) ==
    /\ requests[r].phase = "written"
    /\ Quiet
    /\ hnswService.nextLabel < MaxLabel
    /\ LET s == syncHNSWIndex(hnswService, fs, requests[r].userId,
                              detectFace(requests[r].image))
       IN  /\ hnswService' = s.s
           /\ fs' = s.f
           /\ requests' = [requests EXCEPT
                  ![r].phase = "done",
                  ![r].response = IF s.threw THEN "INTERNAL_SERVER_ERROR" ELSE "updated"]
           /\ lastOp' = Op("updateSync", requests[r].userId, requests[r].image, r, s.threw)
    /\ UNCHANGED <<db, enrollFrame>>

NextUpdate ==
    \/ Start
    \/ WriteIndexDone
    \/ \E r \in 1..NumRequests, ci \in Cis, image \in Images : RegisterBegin(r, ci, image)
    \/ \E r \in 1..NumRequests : RegisterCreate(r)
    \/ \E r \in 1..NumRequests : RegisterSync(r)
    \/ \E r \in 1..NumRequests : RegisterEnd(r)
    \/ \E r \in 1..NumRequests, ci \in Cis, image \in Images : UpdateWrite(r, ci, image)
    \/ \E r \in 1..NumRequests : UpdateSync(r)

SpecUpdate == Init /\ [][NextUpdate]_vars

\* ------------------------------------- rebuild beside register requests
\* rebuildHNSWIndex up to the moment the SELECT of User.getActiveUsers has
\* read the table; its promise has not resolved yet
RebuildSnapshot(r) ==
    /\ hnswService.isInitialized
    /\ requests[r].phase = "idle"
    /\ requests' = [requests EXCEPT ![r] =
           [NoRequest EXCEPT !.phase = "snapshot", !.users = getActiveUsers(db)]]
    /\ lastOp' = Op("rebuildSnapshot", NoUser, 0, r, FALSE)
    /\ UNCHANGED <<hnswService, fs, db, enrollFrame>>

\* the promise resolves: rebuildIndex(users) is started and not awaited,
\* the response is sent, and rebuildIndex, whose awaits are all on methods
\* that do no I/O, runs to its end before any other request goes on
RebuildRun(r) ==
    /\ requests[r].phase = "snapshot"
    /\ Quiet
    /\ LET b == rebuildIndex(hnswService, fs, requests[r].users)
       IN  /\ hnswService' = b.s
           /\ fs' = b.f
    /\ requests' = [requests EXCEPT ![r].phase = "done", ![r].response = "rebuilding"]
    /\ lastOp' = Op("rebuildRun", NoUser, 0, r, FALSE)
    /\ UNCHANGED <<db, enrollFrame>>

NextRebuild ==
    \/ Start
    \/ WriteIndexDone
    \/ \E r \in 1..NumRequests, ci \in Cis, image \in Images : RegisterBegin(r, ci, image)
    \/ \E r \in 1..NumRequests : RegisterCreate(r)
    \/ \E r \in 1..NumRequests : RegisterSync(r)
    \/ \E r \in 1..NumRequests : RegisterEnd(r)
    \/ \E r \in 1..NumRequests : RebuildSnapshot(r)
    \/ \E r \in 1..NumRequests : RebuildRun(r)

SpecRebuild == Init /\ [][NextRebuild]_vars

\* ------------------------------------------------------------- properties
UsersIn(results) == {results[i].userId : i \in 1..Len(results)}

Unmarked(s) == {l \in DOMAIN s.pts : ~s.pts[l].del}

\* C1: a user that was added and then removed, and not added again, is in
\* the result of no search, whatever the query, k and threshold.
C1_RemovedNeverReturned ==
    \A u \in removed : \A q \in Vecs, k \in Ks, t \in Thresholds :
        u \notin UsersIn(search(hnswService, tieBreak, q, k, t))

\* C2: size() is the number of entries of idMap (the live labels) and the
\* number of entries of reverseIdMap.
C2_SizeIsLiveCount ==
    /\ size(hnswService) = Cardinality(DOMAIN hnswService.idMap)
    /\ size(hnswService) = Cardinality(DOMAIN hnswService.reverseIdMap)

C2_Witness ==
    /\ lastOp.op = "updateUser" /\ lastOp.threw
    /\ size(hnswService) = 2
    /\ \E l \in DOMAIN hnswService.pts : hnswService.pts[l].del

\* C3: idMap and reverseIdMap are inverses of each other.
C3_MapsAreInverse ==
    /\ \A l \in DOMAIN hnswService.idMap :
          /\ hasUser(hnswService, hnswService.idMap[l].userId)
          /\ hnswService.reverseIdMap[hnswService.idMap[l].userId] = l
    /\ \A u \in DOMAIN hnswService.reverseIdMap :
          /\ hnswService.reverseIdMap[u] \in DOMAIN hnswService.idMap
          /\ hnswService.idMap[hnswService.reverseIdMap[u]].userId = u

C3_Witness ==
    /\ lastOp.op = "updateUser" /\ ~lastOp.threw
    /\ Cardinality(DOMAIN hnswService.idMap) = 2

\* a step hands out labels in increasing order: nextLabel does not go back,
\* and every label that becomes live is one the step took from nextLabel
HandsOutFresh ==
    /\ hnswService'.nextLabel >= hnswService.nextLabel
    /\ (DOMAIN hnswService'.idMap) \ (DOMAIN hnswService.idMap)
          \subseteq hnswService.nextLabel..(hnswService'.nextLabel - 1)

\* a step gives no entry of idMap to a label that is marked deleted
NoResurrection ==
    \A l \in DOMAIN hnswService.pts :
        (hnswService.pts[l].del /\ l \notin DOMAIN hnswService.idMap)
            => l \notin DOMAIN hnswService'.idMap

\* C4 as stated: labels are never reused and a deleted label never becomes
\* live again, over every operation, rebuild and init/load included.
C4_NeverReused == [][HandsOutFresh /\ NoResurrection]_vars

\* C4 amended: between one creation or load of the index and the next,
\* nextLabel never goes back and every label that becomes live is taken from
\* nextLabel, so none is handed out twice and none that was live comes back.
C4_NeverReusedWithinIndex ==
    [][lastOp'.op \notin {"initialize", "rebuildIndex", "crash", "exit"} => HandsOutFresh]_vars

C4_Witness ==
    /\ lastOp.op = "updateUser" /\ ~lastOp.threw
    /\ hnswService.nextLabel = 3
    /\ \E l \in DOMAIN hnswService.pts : hnswService.pts[l].del

\* the state is the one a successful updateUser(u, d') has just left, the
\* user having had the descriptor lastOp.old before
AfterUpdate ==
    lastOp.op = "updateUser" /\ ~lastOp.threw /\ lastOp.old \in Vecs

OldPointMasked ==
    \A k \in Ks, t \in Thresholds :
        t * t < Dist2(lastOp.old, lastOp.desc) =>
            lastOp.user \notin UsersIn(search(hnswService, tieBreak, lastOp.old, k, t))

\* C5 as stated: after updateUser(u, d'), search(d', 1, inf) returns u first
\* and a search around the old descriptor below the distance does not.
C5_UpdateMovesUser ==
    AfterUpdate =>
        /\ LET r == search(hnswService, tieBreak, lastOp.desc, 1, Inf)
           IN  Len(r) = 1 /\ r[1].userId = lastOp.user
        /\ OldPointMasked

\* C5 amended: search(d', 1, inf) returns at most one result, and one at
\* distance 0 of a user whose descriptor is d'; it returns one when every
\* unmarked point of the graph at d' has an entry of idMap, and it returns u
\* when u's new point is the only unmarked point at d'.  The search around
\* the old descriptor is as stated.
C5_UpdateMovesUserUpToTies ==
    AfterUpdate =>
        /\ LET r == search(hnswService, tieBreak, lastOp.desc, 1, Inf)
               atD == {l \in Unmarked(hnswService) : hnswService.pts[l].vec = lastOp.desc}
           IN  /\ Len(r) <= 1
               /\ \A i \in 1..Len(r) :
                      /\ r[i].distance = 0
                      /\ DescOf(hnswService, r[i].userId) = lastOp.desc
               /\ atD \subseteq DOMAIN hnswService.idMap => Len(r) = 1
               /\ atD = {hnswService.reverseIdMap[lastOp.user]}
                      => UsersIn(r) = {lastOp.user}
        /\ OldPointMasked

C5_Witness ==
    /\ AfterUpdate
    /\ lastOp.old # lastOp.desc
    /\ \E v \in Users \ {lastOp.user} : DescOf(hnswService, v) = lastOp.desc

\* C6: every user the index holds, whose descriptor no other unmarked point
\* of the graph shares, is the one result of search(d, 1, inf), at distance 0.
C6_LiveUserFindsItself ==
    \A u \in DOMAIN hnswService.reverseIdMap :
        LET d == DescOf(hnswService, u)
            r == search(hnswService, tieBreak, d, 1, Inf)
        IN  (/\ hnswService.isInitialized
             /\ d \in Vecs
             /\ \A l \in Unmarked(hnswService) :
                   hnswService.pts[l].vec = d => l = hnswService.reverseIdMap[u])
            => (Len(r) = 1 /\ r[1].userId = u /\ r[1].distance = 0)

\* C7: initialize in a new process, after saveIndex has returned and the
\* process has ended, gives back the maps, the counter and the size that
\* saveIndex stored.
C7_SaveLoadRoundTrip ==
    (lastOp.op = "initialize" /\ lastOp.old = 1) =>
        /\ MetaOf(hnswService) = fs.meta.data
        /\ size(hnswService) = Cardinality(fs.meta.data.idMap)

\* C8: after a crash inside saveIndex the files the restart finds are those
\* of one completed save (or there is no metadata file, and nothing to load).
C8_CrashSafeSave ==
    (crashes > 0 /\ lastOp.op = "initialize") =>
        \/ fs.meta.state = "none"
        \/ /\ fs.index.state = "ok"
           /\ fs.meta.state = "ok"
           /\ fs.index.savedWith = fs.meta.data

\* C9: a user who has been soft-deleted through the delete operation is the
\* match of no later recognition.
C9_OnlyActiveUsersMatch ==
    (lastOp.op = "recognize" /\ ~lastOp.threw /\ lastOp.user # NoUser)
        => db[lastOp.user].is_active

\* the step is a recognition of the image the step before it recognized
\* and answered
SecondCall ==
    /\ lastOp.op = "recognize" /\ ~lastOp.threw
    /\ lastOp'.op = "recognize"
    /\ lastOp'.desc = lastOp.desc

C11_UpdateChangesIdentity ==
    (lastOp.op = "recognize" /\ ~lastOp.threw /\ pending = NoPending) =>
        /\ lastOp.user # NoUser =>
               db[lastOp.user].descriptor = detectFace(lastOp.desc)
        /\ lastOp.user = NoUser =>
               \A u \in DOMAIN db :
                   db[u].is_active => db[u].descriptor # detectFace(lastOp.desc)

\* the answer the recognition of this step gives, computed from the state
\* the step starts in
Answer ==
    recognizeFace(hnswService, tieBreak, cache, stats, lastOp'.desc,
                  IF size(hnswService) = 0 THEN getActiveUsers(db) ELSE <<>>)

\* C12: every match a recognition returns lies within the threshold in force
\* when the call is made, also after the threshold has been lowered.
C12_MatchWithinThreshold ==
    [][(lastOp'.op = "recognize" /\ ~lastOp'.threw /\ lastOp'.user # NoUser)
          => Answer.match.distance <= faceConfig.CONFIDENCE_THRESHOLD]_vars

Jobs == batchService.jobs

InFlight(job) == {w \in DOMAIN job.workers : job.workers[w] # 0}

\* C13: for every job processed <= total; at a terminal status processed is
\* the number of results plus the number of errors; the progress getJob
\* reports is within 0..100.
C13_JobCounters ==
    \A j \in DOMAIN Jobs :
        /\ Jobs[j].processedImages <= Jobs[j].totalImages
        /\ Jobs[j].status \in Terminal =>
               Jobs[j].processedImages = Len(Jobs[j].results) + Len(Jobs[j].errors)
        /\ getJob(batchService, j).progress \in 0..100

C13_Witness ==
    \E j \in DOMAIN Jobs :
        /\ Jobs[j].status = "completed"
        /\ Jobs[j].totalImages = MaxBatchSize
        /\ Len(Jobs[j].results) >= 1
        /\ Len(Jobs[j].errors) >= 1

StatusRank(status) ==
    CASE status = "pending" -> 0
      [] status = "processing" -> 1
      [] status \in Terminal -> 2

\* C14: a job's status only moves pending -> processing -> completed or
\* failed: never back, never to a terminal status from anything but
\* processing, and once it is terminal the status, results, errors and
\* processed count stay as they are.
C14_StatusMovesForward ==
    [][/\ \A j \in (DOMAIN Jobs) \cap (DOMAIN Jobs') :
              /\ StatusRank(Jobs'[j].status) >= StatusRank(Jobs[j].status)
              /\ (Jobs'[j].status \in Terminal /\ Jobs[j].status \notin Terminal)
                     => Jobs[j].status = "processing"
              /\ Jobs[j].status \in Terminal =>
                     /\ Jobs'[j].status = Jobs[j].status
                     /\ Jobs'[j].results = Jobs[j].results
                     /\ Jobs'[j].errors = Jobs[j].errors
                     /\ Jobs'[j].processedImages = Jobs[j].processedImages
       /\ \A j \in (DOMAIN Jobs') \ (DOMAIN Jobs) :
              Jobs'[j].status \in {"pending", "processing"}]_vars

C14_Witness ==
    /\ lastOp.op = "tick"
    /\ \E j \in DOMAIN Jobs :
           Jobs[j].status = "completed" /\ Jobs[j].processedImages = MaxBatchSize

\* C15: createRecognitionJob stores the job and returns status pending and
\* total = number of items, before any item has been processed.
C15_CreateReturnsPending ==
    (lastOp.op = "createRecognitionJob" /\ ~lastOp.threw) =>
        /\ lastOp.user \in DOMAIN Jobs
        /\ batchService.response.status = "pending"
        /\ batchService.response.totalImages = lastOp.desc
        /\ Jobs[lastOp.user].processedImages = 0
        /\ Jobs[lastOp.user].results = <<>>
        /\ Jobs[lastOp.user].errors = <<>>

\* C16: within one job at most MAX_CONCURRENCY items are in flight.
C16_BoundedConcurrency ==
    \A j \in DOMAIN Jobs : Cardinality(InFlight(Jobs[j])) <= MaxConcurrency

C16_Witness ==
    \E j \in DOMAIN Jobs :
        /\ Jobs[j].totalImages > MaxConcurrency
        /\ Jobs[j].processedImages >= 1
        /\ Cardinality(InFlight(Jobs[j])) = MaxConcurrency

\* C17: every job that is created reaches a terminal status (after which
\* it may be evicted), given that the calls it waits for return or throw.
C17_JobsTerminate ==
    \A j \in JobIds :
        (j \in DOMAIN Jobs) ~> (j \notin DOMAIN Jobs \/ Jobs[j].status \in Terminal)

C17_Witness ==
    /\ lastOp.op = "itemDone"
    /\ lastOp.user \in DOMAIN Jobs
    /\ Jobs[lastOp.user].status = "completed"
    /\ Jobs[lastOp.user].totalImages > MaxConcurrency

\* C18: a job leaves the registry only when its status is terminal and its
\* age is above the TTL; a pending or processing job never leaves it.
C18_EvictsOnlyExpiredTerminal ==
    [][\A j \in DOMAIN Jobs :
          j \notin DOMAIN Jobs' =>
              /\ Jobs[j].status \in Terminal
              /\ clock - Jobs[j].createdAt > JobTtl]_vars

C18_Witness ==
    /\ lastOp.op = "cleanup"
    /\ \E j \in JobIds : j < batchService.nextId /\ j \notin DOMAIN Jobs

CacheOps == {"get", "set", "del", "flush", "invalidatePattern"}

\* C19: with the cache enabled, a get that follows set(k, v) returns v and
\* a get that follows del(k) returns null, whichever tier serves and
\* whenever in the life of the service the calls are made.
C19_CacheRoundTrip ==
    [][(cacheService.enabled /\ lastOp'.op = "get") =>
          /\ (lastOp.op = "set" /\ lastOp.key = lastOp'.key) => lastOp'.ret = lastOp.value
          /\ (lastOp.op = "del" /\ lastOp.key = lastOp'.key) => lastOp'.ret = CacheNull]_vars

\* C20: no cache operation throws; when the backend raises an error get
\* returns null and set, del, flush and invalidatePattern return false (0).
C20_CacheNeverThrows ==
    lastOp.op \in CacheOps =>
        /\ ~lastOp.threw
        /\ lastOp.err => lastOp.ret = (IF lastOp.op = "get" THEN CacheNull ELSE 0)

C20_Witness ==
    /\ lastOp.op = "set"
    /\ lastOp.err
    /\ ~cacheService.usingRedis
    /\ cacheService.redisClient

\* C21: once the cache service is initialized the serving tier changes only
\* when the connection to Redis is lost; after that failover a reconnection
\* does not switch the serving tier back to Redis.
C21_TierChangesOnlyOnFailover ==
    [][(cacheService.phase = "done" /\ cacheService'.usingRedis # cacheService.usingRedis)
          => (cacheService.usingRedis /\ lastOp'.op = "redisClose")]_vars

\* the users a query returns and their distances, in order
UsersFound(s, tb, q, k, threshold) ==
    LET r == search(s, tb, q, k, threshold) IN [i \in 1..Len(r) |-> r[i].userId]

DistancesFound(s, tb, q, k, threshold) ==
    LET r == search(s, tb, q, k, threshold) IN [i \in 1..Len(r) |-> r[i].distance]

\* the descriptor and metadata under which the index holds each live user
LiveUsers(s) ==
    [u \in DOMAIN s.reverseIdMap |->
        [meta |-> s.idMap[s.reverseIdMap[u]], vec |-> s.pts[s.reverseIdMap[u]].vec]]

\* C22: a rebuild from the active users of the table, made while the index
\* is in sync with the table, keeps the live users with their descriptors
\* and metadata and keeps size(); every query finds the same distances
\* before and after, and the same users when no two candidates tie.
C22_RebuildEquivalent ==
    [][(lastOp'.op = "rebuildIndex" /\ InSync(hnswService, db, pending)) =>
          /\ InSync(hnswService', db', pending')
          /\ LiveUsers(hnswService') = LiveUsers(hnswService)
          /\ size(hnswService') = size(hnswService)
          /\ \A q \in Vecs, k \in Ks, th \in Thresholds :
                 /\ DistancesFound(hnswService', tieBreak, q, k, th)
                      = DistancesFound(hnswService, tieBreak, q, k, th)
                 /\ k = NumUsers =>
                      {UsersFound(hnswService', tieBreak, q, k, th)[i] :
                          i \in 1..Len(UsersFound(hnswService', tieBreak, q, k, th))}
                      = {UsersFound(hnswService, tieBreak, q, k, th)[i] :
                          i \in 1..Len(UsersFound(hnswService, tieBreak, q, k, th))}
                 /\ (UsersFound(hnswService, "asc", q, k, th)
                        = UsersFound(hnswService, "desc", q, k, th))
                      => UsersFound(hnswService', tieBreak, q, k, th)
                          = UsersFound(hnswService, tieBreak, q, k, th)]_vars

\* a rebuild of an index that was in sync and held every user
C22_Witness ==
    /\ lastOp.op = "rebuildIndex"
    /\ lastOp.old = 1
    /\ size(hnswService) = NumUsers
    /\ InSync(hnswService, db, pending)

\* C23: initialize called on an index that is already initialized leaves
\* the graph, idMap, reverseIdMap, nextLabel and size() as they were.
C23_InitializeIdempotent ==
    [][(lastOp'.op = "initialize" /\ hnswService.isInitialized)
          => hnswService' = hnswService]_vars

\* C24: addUser, updateUser and removeUser called before initialize throw
\* and leave the index as it was.
C24_ThrowsBeforeInitialize ==
    [][(~hnswService.isInitialized
          /\ lastOp'.op \in {"addUser", "updateUser", "removeUser", "removeNone"})
          => (lastOp'.threw /\ hnswService' = hnswService)]_vars

\* C25: while size() is below MAX_ELEMENTS the insert inside updateUser of
\* a well-formed descriptor, for a user whose point is live, succeeds,
\* whatever adds, updates and removes came before.
C25_InsertSucceedsBelowCapacity ==
    [][(lastOp'.op = "updateUser" /\ lastOp'.desc \in Vecs
          /\ hnswService.isInitialized /\ size(hnswService) < MaxElements
          /\ DescOf(hnswService, lastOp'.user) # BadDesc
          /\ ~hnswService.pts[hnswService.reverseIdMap[lastOp'.user]].del)
          => ~lastOp'.threw]_vars

\* C26: a register request for a ci that belongs to an active user, by the
\* time the request is answered, is answered USER_EXISTS and leaves the
\* users table and the index as they were; and no two active users share a
\* ci, also with two requests for the same ci under way.
C26_DuplicateRejected ==
    [][\A r \in 1..NumRequests :
          (/\ requests[r].phase \in {"idle", "checked"}
           /\ requests'[r].phase = "done"
           /\ detectFace(requests'[r].image) # NoFace
           /\ findByCI(db, requests'[r].ci) # NoUser)
          => (/\ requests'[r].response = "USER_EXISTS"
              /\ db' = db
              /\ hnswService' = hnswService)]_vars

\* no two active users share a ci (the UNIQUE constraint sees to it)
UniqueCi ==
    \A u \in DOMAIN db, v \in DOMAIN db :
        (u # v /\ db[u].is_active /\ db[v].is_active) => db[u].ci # db[v].ci

\* C27: with no active user in the table and an empty index, a recognize
\* request with an image that shows a face adds one to
\* recognition_total{status="not_found"}.
C27_NoUsersCountsNotFound ==
    [][(/\ lastOp'.op \in {"recognize", "recognizeNoUsers"}
        /\ detectFace(lastOp'.desc) # NoFace
        /\ getActiveUsers(db) = <<>>
        /\ size(hnswService) = 0)
          => stats'.notFound = stats.notFound + 1]_vars

\* C28: when the process exits on a termination signal the in-flight work
\* has been drained: no batch job is still pending or processing.
C28_ShutdownDrains ==
    lastOp.op = "shutdown" =>
        \A j \in DOMAIN batchService.jobs : batchService.jobs[j].status \in Terminal

\* the entries of results and errors a job holds for the item at position i
EntriesFor(job, i) ==
    Cardinality({k \in DOMAIN job.results : job.results[k].id = i})
        + Cardinality({k \in DOMAIN job.errors : job.errors[k].id = i})

\* C29: whatever the interleaving of the workers, an item never has two
\* entries in results and errors together; the items that have one are
\* those taken from the cursor and no longer in flight, processed counts
\* them, and a completed job has exactly one entry for every item.
C29_EachItemOnce ==
    \A j \in DOMAIN Jobs :
        LET job == Jobs[j]
            taken == (1..job.index) \ {job.workers[w] : w \in InFlight(job)}
        IN  /\ \A i \in 1..Len(job.images) :
                   EntriesFor(job, i) = (IF i \in taken THEN 1 ELSE 0)
            /\ Len(job.results) + Len(job.errors) = Cardinality(taken)
            /\ job.processedImages = Cardinality(taken)
            /\ \A w1 \in InFlight(job), w2 \in InFlight(job) :
                   job.workers[w1] = job.workers[w2] => w1 = w2
            /\ job.status = "completed" => taken = 1..Len(job.images)

\* a completed job of MaxBatchSize items whose workers finished out of
\* order: the first entry of results is not the first item
C29_Witness ==
    \E j \in DOMAIN Jobs :
        /\ Jobs[j].status = "completed"
        /\ Jobs[j].totalImages = MaxBatchSize
        /\ Len(Jobs[j].results) = MaxBatchSize
        /\ Jobs[j].results[1].id # 1

\* C30: a job becomes failed, with globalError set, only from the load of
\* the active users, before any item was taken; an item that fails adds an
\* entry to errors and the job goes on to completed.
C30_FailedOnlyBeforeLoop ==
    [][\A j \in (DOMAIN Jobs) \cap (DOMAIN Jobs') :
          /\ (Jobs'[j].status = "failed" /\ Jobs[j].status # "failed") =>
                 /\ Jobs[j].phase = "loading"
                 /\ Jobs'[j].globalError
                 /\ Jobs'[j].processedImages = 0
                 /\ Jobs'[j].results = <<>> /\ Jobs'[j].errors = <<>>
          /\ Jobs'[j].globalError => Jobs'[j].status = "failed"
          /\ Len(Jobs'[j].errors) > Len(Jobs[j].errors) =>
                 /\ Jobs'[j].status \in {"processing", "completed"}
                 /\ (InFlight(Jobs'[j]) = {} /\ Jobs'[j].index = Len(Jobs'[j].images))
                        => Jobs'[j].status = "completed"]_vars

\* the last item of a job fails, as every item before it did, and the job
\* is completed
C30_Witness ==
    /\ lastOp.op = "itemDone"
    /\ \E j \in DOMAIN Jobs :
           /\ Jobs[j].status = "completed"
           /\ Len(Jobs[j].errors) = Jobs[j].totalImages
           /\ Jobs[j].totalImages >= 2
           /\ ~Jobs[j].globalError

\* C31: register and update write the users table before they touch the
\* index, and a failure of the index does not fail the request: while the
\* call of syncHNSWIndex is still to come the row already holds the new
\* descriptor and the index is as it was, and when addUser throws inside
\* syncHNSWIndex the row stays and the request goes on to its success
\* response.
C31_PersistFirstIndexFailureSwallowed ==
    [][/\ lastOp'.op \in {"register", "update"} =>
              /\ hnswService' = hnswService
              /\ pending'.userId \in DOMAIN db'
              /\ db'[pending'.userId].descriptor = pending'.descriptor
       /\ lastOp'.op = "syncHNSWIndex" =>
              /\ ~lastOp'.threw
              /\ db' = db
              /\ db'[lastOp'.user].descriptor = lastOp'.desc]_vars

\* addUser threw inside syncHNSWIndex
C31_Witness ==
    /\ lastOp.op = "syncHNSWIndex"
    /\ lastOp.old = 1
    /\ ~lastOp.threw
    /\ db[lastOp.user].descriptor = lastOp.desc

\* C32: once every register and update request has been answered, the
\* descriptor of the live point the index holds for a user is the
\* descriptor of the user's row.
C32_IndexFollowsStore ==
    (\A r \in 1..NumRequests : requests[r].phase \in {"idle", "done"}) =>
        \A u \in DOMAIN db :
            (/\ db[u].is_active
             /\ hasUser(hnswService, u)
             /\ hnswService.reverseIdMap[u] \in DOMAIN hnswService.pts
             /\ ~hnswService.pts[hnswService.reverseIdMap[u]].del)
            => hnswService.pts[hnswService.reverseIdMap[u]].vec = db[u].descriptor

\* C33: the index a search can read is never in the middle of a mutation:
\* every user the maps hold has its point in the graph, not marked deleted
\* (the middle of updateUser is the old point masked and the new one not
\* yet inserted), and every unmarked point of the graph has its metadata.
C33_NoIntermediateState ==
    hnswService.isInitialized =>
        /\ \A u \in DOMAIN hnswService.reverseIdMap :
              /\ hnswService.reverseIdMap[u] \in DOMAIN hnswService.pts
              /\ ~hnswService.pts[hnswService.reverseIdMap[u]].del
        /\ \A l \in Unmarked(hnswService) : l \in DOMAIN hnswService.idMap

\* C34: an addUser call reaches saveIndex exactly when it is the
\* SaveEvery-th, 2*SaveEvery-th, ... successful add of a new user, whatever
\* updates and removes came in between, and no update or remove saves.
C34_PersistEveryNthAdd ==
    [][/\ lastOp'.op = "addUserNth" =>
              ((lastOp'.old = 1) <=> (adds' = adds + 1 /\ adds' % SaveEvery = 0))
       /\ lastOp'.op \in {"updateUser", "removeUser", "removeNone"} => fs' = fs]_vars

\* a save was attempted by the step and failed: the directory refused
\* writes while the step reached saveIndex with an index to save
SaveFailedInStep ==
    /\ ~fs.writable
    /\ \/ lastOp'.op = "rebuildIndex"
       \/ lastOp'.op = "shutdown" /\ hnswService.hasIndex
       \/ /\ lastOp'.op = "addUser"
          /\ hnswService'.totalVectors = hnswService.totalVectors + 1
          /\ hnswService'.totalVectors % SaveEvery = 0

\* C35: a save that fails inside addUser or inside shutdown does not make
\* the call throw, and a save that fails inside rebuildIndex makes
\* rebuildIndex throw to its caller.
C35_SaveErrorsSurfaceOnlyFromRebuild ==
    [][SaveFailedInStep =>
          /\ lastOp'.op \in {"addUser", "shutdown"} => ~lastOp'.threw
          /\ lastOp'.op = "rebuildIndex" => lastOp'.threw]_vars

\* the positions of the users whose descriptor lies strictly nearer to q
\* than the threshold
Qualifying(q, users) ==
    {i \in 1..Len(users) :
        /\ users[i].descriptor \in Vecs
        /\ Sqrt(Dist2(q, users[i].descriptor)) < faceConfig.CONFIDENCE_THRESHOLD}

Observable(s) ==
    LET live == {u \in DOMAIN s.reverseIdMap : s.reverseIdMap[u] \in Unmarked(s)}
    IN  [size |-> size(s),
         live |-> live,
         resolves |-> [u \in live |->
                          [meta |-> IF s.reverseIdMap[u] \in DOMAIN s.idMap
                                    THEN s.idMap[s.reverseIdMap[u]] ELSE NoUser,
                           vec |-> s.pts[s.reverseIdMap[u]].vec]]]

\* C37: syncHNSWIndex never throws, and applying it a second time with the
\* same user and descriptor leaves size(), the live users and what each
\* resolves to as the first application left them.
C37_SyncIdempotent ==
    \A u \in Users, d \in Vecs :
        LET once == syncHNSWIndex(hnswService, fs, u, d)
            twice == syncHNSWIndex(once.s, once.f, u, d)
        IN  /\ ~once.threw
            /\ ~twice.threw
            /\ Observable(twice.s) = Observable(once.s)

\* C38: a recognition changes the result cache only by adding the entry of
\* its image, with a TTL of 1800 s, and only when it found a match; one
\* that throws, finds no match or is served from the cache leaves the
\* cache as it was.
C38_CacheWrittenOnlyOnMatch ==
    [][/\ lastOp'.op = "recognize" =>
              LET users == IF size(hnswService) = 0 THEN getActiveUsers(db) ELSE <<>>
                  r == recognizeFace(hnswService, tieBreak, cache, stats, lastOp'.desc, users)
                  key == generateCacheKey(lastOp'.desc)
              IN  /\ cache' # cache =>
                        /\ ~lastOp'.threw
                        /\ lastOp'.old = 0
                        /\ lastOp'.user # NoUser
                        /\ key \notin DOMAIN cache
                        /\ DOMAIN cache' = DOMAIN cache \cup {key}
                        /\ cache'[key].id = lastOp'.user
                        /\ \A k \in DOMAIN cache : cache'[k] = cache[k]
                        /\ r.ttl = 1800
                  /\ (lastOp'.threw \/ lastOp'.user = NoUser) => cache' = cache
       /\ lastOp'.op = "recognizeNoUsers" => cache' = cache]_vars

\* a recognition found a match and its result went into the cache
C38_Witness ==
    /\ lastOp.op = "recognize"
    /\ lastOp.old = 0
    /\ lastOp.user # NoUser
    /\ generateCacheKey(lastOp.desc) \in DOMAIN cache
    /\ cache[generateCacheKey(lastOp.desc)].id = lastOp.user

\* C39: an updateUser whose insert fails (the old point was live when the
\* call began, and the call threw) leaves the user live under its old
\* label with the graph as it was, and a search for the old descriptor
\* still returns the user.
C39_FailedUpdateLeavesUserLive ==
    [][(/\ lastOp'.op = "updateUser"
        /\ lastOp'.threw
        /\ hnswService.isInitialized
        /\ hnswService.reverseIdMap[lastOp'.user] \in Unmarked(hnswService))
       => /\ hnswService'.reverseIdMap[lastOp'.user] = hnswService.reverseIdMap[lastOp'.user]
          /\ hnswService'.pts = hnswService.pts
          /\ size(hnswService') = size(hnswService)
          /\ \E i \in 1..NumUsers :
                LET r == search(hnswService', tieBreak, lastOp'.old, NumUsers, Inf)
                IN  i <= Len(r) /\ r[i].userId = lastOp'.user]_vars

\* C40: once every register and rebuild request has been answered and the
\* rebuilds have run, every active user of the table is in the index: the
\* maps hold the user and its point is in the graph, not marked deleted.
C40_ActiveUsersIndexedAfterRebuild ==
    (\A r \in 1..NumRequests : requests[r].phase \in {"idle", "done"}) =>
        \A u \in DOMAIN db :
            db[u].is_active =>
                /\ hasUser(hnswService, u)
                /\ hnswService.reverseIdMap[u] \in Unmarked(hnswService)

====
